---- MODULE Spec2Model ----
(***************************************************************************)
(* A model of quick_gfx: the texture cache with its bin-packing trees       *)
(* (res/tex/glium_cache), the glyph cache (res/font/glium_cache) and the    *)
(* controller calls that read them (renderer/controller.rs).                *)
(*                                                                          *)
(* UV coordinates are f32 in the source.  Here they are integers counting   *)
(* 1/UNIT of a page side.  Page sides and image sides are multiples of a    *)
(* power of two that divide UNIT, so every quotient w / page_w the source   *)
(* computes is a multiple of 1/UNIT and is exact in f32 as well.            *)
(***************************************************************************)
EXTENDS Integers, Sequences, FiniteSets, TLC

VARIABLES
  \* GliumTexCache (res/tex/glium_cache/mod.rs)
  max_cache_textures,   \* usize, 0 = limitless
  cache_texture_size,   \* <<w, h>> in pixels
  cache_textures,       \* Seq of <<w, h>>: the pixel size each page was created with
  bin_pack_trees,       \* Seq of trees, one per page; a tree is an arena of nodes
  next_tex_handle,      \* the next TexHandle to hand out
  tex_lookups,          \* number of live clones of the Arc<BinaryTree> (lookup views)
  \* history of the texture cache calls
  tex_call,             \* the inputs of the last cache_tex call
  tex_result,           \* the Vec<Result<..>> the last cache_tex call returned
  issued,               \* Seq of [handle, ix, rect]: what every Ok(handle) was assigned
  n_images,             \* images submitted so far
  \* a cache_tex call followed statement by statement
  tex_pc,               \* "idle", or the statement of cache_tex_internal the call is at
  tex_job,              \* the locals of that call
  lookup_seen,          \* what the last rect_for saw: [tex, found, whole]
  \* GliumFontCache (res/font/glium_cache.rs)
  font_handles,         \* Set of [spec, fh]: the BTreeMap<FontSpec, FontHandle>
  curr_font_handle,     \* the next FontHandle
  fonts,                \* Set of [fh, path, scale]: GliumGlyphLookup.fonts
  cache,                \* Set of [font_id, c, scale]: glyphs resident in the gpu cache
  \* history of the glyph cache calls
  glyph_call,           \* arguments of the last cache_glyphs call
  glyph_result,         \* what it returned
  glyph_repeated,       \* the last call repeated the arguments of the call before it, which returned Ok
  n_glyph_calls,
  \* RendererController (renderer/controller.rs), one per producer
  buffer,               \* [producer -> Vec<Vertex>]
  text_call,            \* arguments of the last text call
  n_text_calls,
  n_calls,              \* [producer -> line, rect, circle and tex calls made]
  submitted,            \* [producer -> every vertex it appended to its buffer, in order]
  \* Renderer (renderer/mod.rs)
  channel,              \* the messages in v_channel_pair, oldest first
  v_data_list,          \* Seq of [tex_ix, tex_type, list]: self.v_data_list
  recv_pc,              \* "idle", or "loop" while recv_data is in its loop
  recv_list,            \* the local v_data_list of the recv_data call in progress
  \* history of the renderer calls
  units,                \* the non-empty units flushed so far
  at_start,             \* the channel as it was when the last recv_data call started
  drained,              \* the vertices the last recv_data call received, in order
  n_received,           \* [producer -> the number of its vertices recv_data has received]
  draws,                \* the draw calls of the last render: Seq of [tex_ix, tex_type, len]
  rendered,             \* render was called since the last recv_data returned
  \* the thread of control
  panicked,             \* "no", or the call that panicked
  \* clones of controllers
  n_clones,             \* clones made so far
  \* the mutexes of Renderer (renderer/mod.rs) and the threads that lock them
  font_lock,            \* Mutex of font_cache: "free", the thread holding it, or "poisoned"
  tex_lock,             \* Mutex of tex_cache: the same
  thread_pc             \* [thread -> [op, at]]: the call a thread is in and where it is

tex_vars == <<max_cache_textures, cache_texture_size, cache_textures, bin_pack_trees,
              next_tex_handle, tex_lookups, tex_call, tex_result, issued, n_images,
              tex_pc, tex_job, lookup_seen>>
font_vars == <<font_handles, curr_font_handle, fonts, cache, glyph_call, glyph_result,
               glyph_repeated, n_glyph_calls>>
step_vars == <<tex_pc, tex_job, lookup_seen>>
ctl_vars == <<buffer, text_call, n_text_calls>>
prod_vars == <<n_calls, submitted>>
chan_vars == <<channel, v_data_list, recv_pc, recv_list, units, at_start, drained, n_received,
               draws, rendered>>
lock_vars == <<font_lock, tex_lock, thread_pc>>
vars == <<tex_vars, font_vars, ctl_vars, prod_vars, chan_vars, panicked, n_clones, lock_vars>>

----------------------------------------------------------------------------
\* Bounds of the model.

\* images submitted to cache_tex over a run
MaxImages == 3
\* images in one cache_tex call
MaxBatch == 2
\* lookup views (controllers) alive at once
MaxLookups == 1
\* largest value given to set_max_cache_textures
MaxCap == 1
\* the largest texture side the graphics backend creates
BackendMaxSide == 2048

\* Option<T>: None is the empty sequence, Some(x) the sequence of x.
None == <<>>
Some(x) == <<x>>
IsSome(o) == o /= <<>>
Unwrap(o) == o[1]

\* One page side in UV units: the f32 1.0.
UNIT == 4096

\* The page sizes set_cache_texture_size is called with, and the image sides.
PageSides == {1024, 2048, 4096}
ImageSides == {1024, 2048}

\* The inputs of cache_tex_internal: an unreadable file, bytes that do not
\* decode, or an image of w x h pixels.
TexInputs ==
  {[kind |-> "IoError", w |-> 0, h |-> 0], [kind |-> "ImageError", w |-> 0, h |-> 0]}
  \cup {[kind |-> "image", w |-> w, h |-> h] : w \in ImageSides, h \in ImageSides}

\* cache_glyphs calls over a run
MaxGlyphCalls == 2
\* codepoints in one charset
MaxCharset == 3
\* text calls over a run, and codepoints in one string
MaxTextCalls == 1
MaxText == 2
\* glyph bitmaps the gpu cache has room for
GlyphCap == 3
\* line, rect, circle and tex calls of one producer over a run
MaxCalls == 2
\* messages waiting in the vertex channel
MaxChannel == 2
\* clones of a controller made over a run
MaxClones == 1

\* The controllers that send to the renderer, one per producer thread.
Producers == {1, 2}

\* The renderer thread, which calls render, and the threads that call
\* cache_glyphs, cache_tex and get_renderer_controller
Workers == {"a", "b"}
Threads == {"renderer"} \cup Workers

\* A thread is in no call; a thread has panicked
Idle == [op |-> "none", at |-> "idle"]
Panicked == [op |-> "none", at |-> "panicked"]

\* renderer::VBO_SIZE, the vertices of the renderer's vertex buffer: 65563
\* in the source, here the vertices of one shape and a third.
VBO_SIZE == 8

\* The codepoints of the model, and the font files.  "a.ttf" maps 'a', '?'
\* and the space (a glyph with no pixel bounding box); "b.ttf" maps only 'a';
\* no font maps 'x' (glyph id 0).  "missing.ttf" cannot be opened.
Chars == {"a", "?", " ", "x"}
Paths == {"a.ttf", "b.ttf"}
Mapped(path) == IF path = "a.ttf" THEN {"a", "?", " "} ELSE {"a"}
HasBox(c) == c /= " "

\* The codepoints cache_glyphs is asked for
CharsetChars == {"a", "?", "x"}

\* cache_glyphs reads its charset as a bag: apart from the order of the list
\* inside GlyphNotSupported, the order of the codepoints changes nothing.  The
\* charsets of the model list their codepoints in this order.
CharsetOrder == <<"a", "?", "x">>
CharRank(c) == CHOOSE i \in 1..Len(CharsetOrder) : CharsetOrder[i] = c

\* Scales in 1/1000 pt: 32.000 and 32.004 share the FontSpec 3200, 32.010 has 3201.
Scales == {32000, 32004, 32010}

----------------------------------------------------------------------------
\* binary_tree.rs

\* BinaryTreeNode::new
NewNode(space) ==
  [l_child |-> 0, r_child |-> 0, space |-> space, tex_handle |-> None]

IsLeafNever(n) == TRUE

\* BinaryTreeNode::is_leaf
is_leaf(n) == n.tex_handle = None

FitsWidthOnly(space, w, h) == ~(w > space[3])

FitsWithRoomToSpare(space, w, h) == ~(w >= space[3] \/ h >= space[4])

\* the fit check of pack_rect: not (w > space[2] || h > space[3])
Fits(space, w, h) == ~(w > space[3] \/ h > space[4])

SpaceRightIsBelow(space, w, h) == <<space[1], space[2] + h, space[3], space[4] - h>>

\* the two free rects pack_rect leaves, as the code computes them
SpaceBelow(space, w, h) == <<space[1], space[2] + h, space[3], space[4] - h>>
SpaceRight(space, w, h) == <<space[1] + w, space[2], space[3] - w, space[4]>>

\* BinaryTreeNode::pack_rect on node ix of the arena t.  The result is
\* [ok, tree, rect]: Err(SpaceTooSmall) leaves the tree as it was.
RECURSIVE pack_rect(_, _, _, _, _)
pack_rect(t, ix, w, h, tex) ==
  LET n == t[ix] IN
  IF ~is_leaf(n)
  THEN LET res == pack_rect(t, n.r_child, w, h, tex) IN
       IF ~res.ok THEN pack_rect(t, n.l_child, w, h, tex) ELSE res
  ELSE IF ~Fits(n.space, w, h)
  THEN [ok |-> FALSE, tree |-> t, rect |-> <<>>]
  ELSE LET packed == [l_child |-> Len(t) + 1, r_child |-> Len(t) + 2,
                      space |-> <<n.space[1], n.space[2], w, h>>,
                      tex_handle |-> Some(tex)]
       IN [ok |-> TRUE,
           tree |-> Append(Append([t EXCEPT ![ix] = packed],
                                  NewNode(SpaceBelow(n.space, w, h))),
                           NewNode(SpaceRight(n.space, w, h))),
           rect |-> packed.space]

\* BinaryTreeNode::rect_for: depth first, l_child before r_child
RECURSIVE node_rect_for(_, _, _)
node_rect_for(t, ix, tex_handle) ==
  LET n == t[ix] IN
  IF n.tex_handle = None THEN None
  ELSE IF Unwrap(n.tex_handle) = tex_handle THEN Some(n.space)
  ELSE LET res == IF n.l_child /= 0 THEN node_rect_for(t, n.l_child, tex_handle) ELSE None IN
       IF IsSome(res) THEN res
       ELSE IF n.r_child /= 0 THEN node_rect_for(t, n.r_child, tex_handle) ELSE None

\* TexHandleLookup::rect_for for BinaryTree: the first page that holds the handle
RECURSIVE rect_for_from(_, _, _)
rect_for_from(trees, ii, tex) ==
  IF ii > Len(trees) THEN None
  ELSE LET res == node_rect_for(trees[ii], 1, tex) IN
       IF IsSome(res) THEN Some(<<ii - 1, Unwrap(res)>>)
       ELSE rect_for_from(trees, ii + 1, tex)

rect_for(trees, tex) == rect_for_from(trees, 1, tex)

----------------------------------------------------------------------------
\* glium_cache/mod.rs

\* SrgbTexture2d::new: the backend rejects a page larger than it supports
\* with TextureCreationError::DimensionsNotSupported.
BackendAccepts(size) == size[1] <= BackendMaxSide /\ size[2] <= BackendMaxSide

\* w as f32 / cache_texture_size.0 as f32, in UV units
Norm(w, side) == (w * UNIT) \div side

\* The glium::Rect cache_tex_internal writes the image to: left, bottom, width
\* and height are (self.cache_texture_size.N as f32 * rect[i]) as u32, with
\* the size the cache is set to when the image is cached
write_rect(size, rect) ==
  <<(size[1] * rect[1]) \div UNIT, (size[2] * rect[2]) \div UNIT,
    (size[1] * rect[3]) \div UNIT, (size[2] * rect[4]) \div UNIT>>

Ok(h) == [tag |-> "Ok", handle |-> Some(h)]
Err(e) == [tag |-> e, handle |-> None]

PackExistingLast(trees, ii, w, h, tex) ==
  LET accept == {i \in ii..Len(trees) : pack_rect(trees[i], 1, w, h, tex).ok} IN
  IF accept = {} THEN [tex_ix |-> None, trees |-> trees, rect |-> None]
  ELSE LET last == CHOOSE i \in accept : \A j \in accept : j <= i
           res == pack_rect(trees[last], 1, w, h, tex)
       IN [tex_ix |-> Some(last - 1), trees |-> [trees EXCEPT ![last] = res.tree],
           rect |-> Some(res.rect)]

\* The loop over the existing trees: the first tree whose pack_rect succeeds.
\* [tex_ix, trees, rect]; tex_ix is None when every tree refused.
RECURSIVE pack_existing(_, _, _, _, _)
pack_existing(trees, ii, w, h, tex) ==
  IF ii > Len(trees) THEN [tex_ix |-> None, trees |-> trees, rect |-> None]
  ELSE LET res == pack_rect(trees[ii], 1, w, h, tex) IN
       IF res.ok
       THEN [tex_ix |-> Some(ii - 1), trees |-> [trees EXCEPT ![ii] = res.tree],
             rect |-> Some(res.rect)]
       ELSE pack_existing(trees, ii + 1, w, h, tex)

TooBigWidthOnly(buf, size) == buf.w > size[1]

\* w > self.cache_texture_size.0 || h > self.cache_texture_size.1
TooBig(buf, size) == buf.w > size[1] \/ buf.h > size[2]

CapReachedOnePageLate(max, n_pages) == max > 0 /\ n_pages > max

\* self.max_cache_textures > 0 && self.cache_textures.len() >= self.max_cache_textures
CapReached(max, n_pages) == max > 0 /\ n_pages >= max

GetNextTexHandleStuck(s) == s

\* get_next_tex_handle
get_next_tex_handle(s) == [s EXCEPT !.next_tex_handle = @ + 1]

\* The body of the loop of cache_tex_internal for one input buf, on the cache
\* state s = [next_tex_handle, cache_textures, bin_pack_trees, result, issued,
\* panicked], under the configuration (max, size) and with `lookups` clones
\* of the Arc alive.  A panic ends the call: the inputs after it are not read.
cache_tex_one(s, buf, max, size, lookups) ==
  IF s.panicked THEN s
  ELSE IF buf.kind = "IoError" THEN [s EXCEPT !.result = Append(@, Err("IoError"))]
  ELSE IF buf.kind = "ImageError" THEN [s EXCEPT !.result = Append(@, Err("ImageError"))]
  ELSE IF TooBig(buf, size)
  THEN [s EXCEPT !.result = Append(@, Err("CacheTooSmall"))]
  ELSE
    LET tex_handle == s.next_tex_handle
        s1 == get_next_tex_handle(s)
        w == Norm(buf.w, size[1])
        h == Norm(buf.h, size[2])
    IN
    \* Arc::get_mut(..).expect(..)
    IF lookups > 0 THEN [s1 EXCEPT !.panicked = TRUE]
    ELSE
      LET found == pack_existing(s1.bin_pack_trees, 1, w, h, tex_handle) IN
      IF IsSome(found.tex_ix)
      THEN [s1 EXCEPT !.bin_pack_trees = found.trees,
                      !.result = Append(@, Ok(tex_handle)),
                      !.issued = Append(@, [handle |-> tex_handle,
                                            ix |-> Unwrap(found.tex_ix),
                                            rect |-> Unwrap(found.rect)])]
      ELSE IF CapReached(max, Len(s1.cache_textures))
      THEN [s1 EXCEPT !.result = Append(@, Err("NoSpace"))]
      ELSE IF ~BackendAccepts(size)
      THEN [s1 EXCEPT !.result = Append(@, Err("DimensionsNotSupported"))]
      ELSE
        LET res == pack_rect(<<NewNode(<<0, 0, UNIT, UNIT>>)>>, 1, w, h, tex_handle) IN
        \* .unwrap() of the pack into the new tree
        IF ~res.ok THEN [s1 EXCEPT !.panicked = TRUE]
        ELSE [s1 EXCEPT !.cache_textures = Append(@, size),
                        !.bin_pack_trees = Append(@, res.tree),
                        !.result = Append(@, Ok(tex_handle)),
                        !.issued = Append(@, [handle |-> tex_handle,
                                              ix |-> Len(s1.cache_textures),
                                              rect |-> res.rect])]

\* cache_tex_internal: the loop over bytes
RECURSIVE cache_tex_internal(_, _, _, _, _)
cache_tex_internal(s, bytes, max, size, lookups) ==
  IF bytes = <<>> THEN s
  ELSE cache_tex_internal(cache_tex_one(s, Head(bytes), max, size, lookups),
                          Tail(bytes), max, size, lookups)

\* The sequences of 1..n inputs
RECURSIVE SeqsUpTo(_, _)
SeqsUpTo(S, n) ==
  IF n = 0 THEN {<<>>}
  ELSE LET shorter == SeqsUpTo(S, n - 1) IN
       shorter \cup {Append(q, x) : q \in {r \in shorter : Len(r) = n - 1}, x \in S}

\* TexCache::cache_tex / cache_tex_from_bytes: a call of cache_tex_internal
cache_tex(bytes) ==
  /\ panicked = "no"
  /\ UNCHANGED n_clones
  /\ n_images + Len(bytes) <= MaxImages
  /\ LET s == cache_tex_internal(
                [next_tex_handle |-> next_tex_handle, cache_textures |-> cache_textures,
                 bin_pack_trees |-> bin_pack_trees, result |-> <<>>, issued |-> issued,
                 panicked |-> FALSE],
                bytes, max_cache_textures, cache_texture_size, tex_lookups)
     IN /\ next_tex_handle' = s.next_tex_handle
        /\ cache_textures' = s.cache_textures
        /\ bin_pack_trees' = s.bin_pack_trees
        /\ issued' = s.issued
        /\ tex_result' = IF s.panicked THEN <<>> ELSE s.result
        /\ panicked' = IF s.panicked THEN "cache_tex" ELSE "no"
  /\ tex_call' = bytes
  /\ n_images' = n_images + Len(bytes)
  /\ UNCHANGED <<max_cache_textures, cache_texture_size, tex_lookups, step_vars,
                 font_vars, ctl_vars, prod_vars, chan_vars>>

\* Renderer::cache_tex / cache_tex_from_bytes in a program of one thread: the
\* mutex is locked, the cache is called and the mutex is unlocked in one step.
CacheTex(bytes) == cache_tex(bytes) /\ UNCHANGED lock_vars

\* TexCache::set_max_cache_textures
SetMaxCacheTextures(n) ==
  /\ panicked = "no"
  /\ UNCHANGED <<n_clones, lock_vars>>
  /\ max_cache_textures /= n
  /\ max_cache_textures' = n
  /\ UNCHANGED <<cache_texture_size, cache_textures, bin_pack_trees, next_tex_handle,
                 tex_lookups, tex_call, tex_result, issued, n_images, step_vars,
                 font_vars, ctl_vars, prod_vars, chan_vars, panicked>>

\* TexCache::set_cache_texture_size
SetCacheTextureSize(w, h) ==
  /\ panicked = "no"
  /\ UNCHANGED <<n_clones, lock_vars>>
  /\ cache_texture_size /= <<w, h>>
  /\ cache_texture_size' = <<w, h>>
  /\ UNCHANGED <<max_cache_textures, cache_textures, bin_pack_trees, next_tex_handle,
                 tex_lookups, tex_call, tex_result, issued, n_images, step_vars,
                 font_vars, ctl_vars, prod_vars, chan_vars, panicked>>

\* Renderer::get_renderer_controller: the new controller keeps the clone of
\* the Arc<BinaryTree> that get_tex_lookup returns.
get_renderer_controller ==
  /\ panicked = "no"
  /\ UNCHANGED n_clones
  /\ tex_lookups < MaxLookups
  /\ tex_lookups' = tex_lookups + 1
  /\ UNCHANGED <<max_cache_textures, cache_texture_size, cache_textures, bin_pack_trees,
                 next_tex_handle, tex_call, tex_result, issued, n_images, step_vars,
                 font_vars, ctl_vars, prod_vars, chan_vars, panicked>>

\* Renderer::get_renderer_controller in a program of one thread
GetRendererController == get_renderer_controller /\ UNCHANGED lock_vars

\* A controller is dropped, and its clone of the Arc with it.
DropController ==
  /\ panicked = "no"
  /\ UNCHANGED <<n_clones, lock_vars>>
  /\ tex_lookups > 0
  /\ tex_lookups' = tex_lookups - 1
  /\ UNCHANGED <<max_cache_textures, cache_texture_size, cache_textures, bin_pack_trees,
                 next_tex_handle, tex_call, tex_result, issued, n_images, step_vars,
                 font_vars, ctl_vars, prod_vars, chan_vars, panicked>>

----------------------------------------------------------------------------
\* glium_cache/mod.rs, statement by statement
\*
\* The same cache_tex_internal, one action for each statement that writes the
\* cache, so that other threads run between its writes.  Renderer keeps the
\* GliumTexCache in a Mutex (renderer/mod.rs:72): cache_tex,
\* get_renderer_controller and the configuration calls take it, and it is
\* held from the start of a cache_tex call to its return.  A controller
\* reads its clone of the Arc<BinaryTree> without any lock.

\* no cache_tex call is in progress
NoJob == [todo |-> <<>>, result |-> <<>>, tex_handle |-> 0, w |-> 0, h |-> 0,
          ii |-> 0, ix |-> 0, start |-> <<>>]

InitSteps ==
  /\ tex_pc = "idle"
  /\ tex_job = NoJob
  /\ lookup_seen = [tex |-> 0, found |-> None, whole |-> TRUE]

ArcGetMutAlways(lookups) == TRUE

\* Arc::get_mut(&mut self.bin_pack_trees) is Some: no other clone of the Arc
arc_get_mut(lookups) == lookups = 0

\* The leaf pack_rect fills when called on node ix: the search of lines
\* 78-95, r_child before l_child; 0 is Err(SpaceTooSmall).
RECURSIVE find_leaf(_, _, _, _)
find_leaf(t, ix, w, h) ==
  LET n == t[ix] IN
  IF ~is_leaf(n)
  THEN LET res == find_leaf(t, n.r_child, w, h) IN
       IF res = 0 THEN find_leaf(t, n.l_child, w, h) ELSE res
  ELSE IF ~Fits(n.space, w, h) THEN 0 ELSE ix

\* the variables no statement of cache_tex_internal writes
held_vars == <<max_cache_textures, cache_texture_size, tex_lookups, lookup_seen,
               font_vars, ctl_vars, prod_vars, chan_vars>>

\* cache_tex is called: the mutex is taken and `result` is created
BeginCacheTex(bytes) ==
  /\ panicked = "no"
  /\ UNCHANGED <<n_clones, lock_vars>>
  /\ tex_pc = "idle"
  /\ n_images + Len(bytes) <= MaxImages
  /\ tex_pc' = "next"
  /\ tex_job' = [NoJob EXCEPT !.todo = bytes,
                              !.start = <<[next_tex_handle |-> next_tex_handle,
                                           cache_textures |-> cache_textures,
                                           bin_pack_trees |-> bin_pack_trees,
                                           result |-> <<>>, issued |-> issued,
                                           panicked |-> FALSE]>>]
  /\ tex_call' = bytes
  /\ n_images' = n_images + Len(bytes)
  /\ UNCHANGED <<cache_textures, bin_pack_trees, next_tex_handle, tex_result, issued,
                 held_vars, panicked>>

\* for buf in bytes (lines 65-93): the checks of the next input, its handle
\* and Arc::get_mut; after the last input the call returns
NextInput ==
  /\ panicked = "no"
  /\ UNCHANGED <<n_clones, lock_vars>>
  /\ tex_pc = "next"
  /\ IF tex_job.todo = <<>>
     THEN /\ tex_result' = tex_job.result
          /\ tex_pc' = "idle"
          /\ tex_job' = NoJob
          /\ UNCHANGED <<next_tex_handle, panicked>>
     ELSE LET buf == Head(tex_job.todo)
              rest == [tex_job EXCEPT !.todo = Tail(@)]
          IN IF buf.kind \in {"IoError", "ImageError"}
             THEN /\ tex_job' = [rest EXCEPT !.result = Append(@, Err(buf.kind))]
                  /\ UNCHANGED <<tex_pc, next_tex_handle, tex_result, panicked>>
             ELSE IF TooBig(buf, cache_texture_size)
             THEN /\ tex_job' = [rest EXCEPT !.result = Append(@, Err("CacheTooSmall"))]
                  /\ UNCHANGED <<tex_pc, next_tex_handle, tex_result, panicked>>
             ELSE /\ next_tex_handle' =
                       get_next_tex_handle([next_tex_handle |-> next_tex_handle]).next_tex_handle
                  /\ tex_job' = [rest EXCEPT !.tex_handle = next_tex_handle,
                                             !.w = Norm(buf.w, cache_texture_size[1]),
                                             !.h = Norm(buf.h, cache_texture_size[2]),
                                             !.ii = 1, !.ix = 0]
                  /\ IF arc_get_mut(tex_lookups)
                     THEN tex_pc' = "pack" /\ UNCHANGED panicked
                     ELSE panicked' = "cache_tex" /\ UNCHANGED tex_pc
                  /\ UNCHANGED tex_result
  /\ UNCHANGED <<cache_textures, bin_pack_trees, tex_call, issued, n_images, held_vars>>

\* for (ii, t) in bin_pack_trees.iter_mut().enumerate() (lines 94-99): the
\* search of pack_rect in tree ii, up to the first write
TryPage ==
  /\ panicked = "no"
  /\ UNCHANGED <<n_clones, lock_vars>>
  /\ tex_pc = "pack"
  /\ IF tex_job.ii > Len(bin_pack_trees)
     THEN tex_pc' = "grow" /\ UNCHANGED tex_job
     ELSE LET ix == find_leaf(bin_pack_trees[tex_job.ii], 1, tex_job.w, tex_job.h) IN
          IF ix = 0
          THEN tex_job' = [tex_job EXCEPT !.ii = @ + 1] /\ UNCHANGED tex_pc
          ELSE tex_job' = [tex_job EXCEPT !.ix = ix] /\ tex_pc' = "l_child"
  /\ UNCHANGED <<cache_textures, bin_pack_trees, next_tex_handle, tex_call, tex_result,
                 issued, n_images, held_vars, panicked>>

\* self.l_child = Some(Box::new(BinaryTreeNode::new(space_below)))
SetLChild ==
  /\ panicked = "no"
  /\ UNCHANGED <<n_clones, lock_vars>>
  /\ tex_pc = "l_child"
  /\ LET t == bin_pack_trees[tex_job.ii]
         n == t[tex_job.ix]
     IN bin_pack_trees' =
          [bin_pack_trees EXCEPT ![tex_job.ii] =
             Append([t EXCEPT ![tex_job.ix].l_child = Len(t) + 1],
                    NewNode(SpaceBelow(n.space, tex_job.w, tex_job.h)))]
  /\ tex_pc' = "r_child"
  /\ UNCHANGED <<cache_textures, next_tex_handle, tex_call, tex_result, issued, n_images,
                 tex_job, held_vars, panicked>>

\* self.r_child = Some(Box::new(BinaryTreeNode::new(space_right)))
SetRChild ==
  /\ panicked = "no"
  /\ UNCHANGED <<n_clones, lock_vars>>
  /\ tex_pc = "r_child"
  /\ LET t == bin_pack_trees[tex_job.ii]
         n == t[tex_job.ix]
     IN bin_pack_trees' =
          [bin_pack_trees EXCEPT ![tex_job.ii] =
             Append([t EXCEPT ![tex_job.ix].r_child = Len(t) + 1],
                    NewNode(SpaceRight(n.space, tex_job.w, tex_job.h)))]
  /\ tex_pc' = "space"
  /\ UNCHANGED <<cache_textures, next_tex_handle, tex_call, tex_result, issued, n_images,
                 tex_job, held_vars, panicked>>

\* self.space = [self.space[0], self.space[1], w, h]
SetSpace ==
  /\ panicked = "no"
  /\ UNCHANGED <<n_clones, lock_vars>>
  /\ tex_pc = "space"
  /\ bin_pack_trees' =
       [bin_pack_trees EXCEPT ![tex_job.ii][tex_job.ix].space =
          <<@[1], @[2], tex_job.w, tex_job.h>>]
  /\ tex_pc' = "tex_handle"
  /\ UNCHANGED <<cache_textures, next_tex_handle, tex_call, tex_result, issued, n_images,
                 tex_job, held_vars, panicked>>

\* self.tex_handle = Some(tex)
SetTexHandle ==
  /\ panicked = "no"
  /\ UNCHANGED <<n_clones, lock_vars>>
  /\ tex_pc = "tex_handle"
  /\ bin_pack_trees' =
       [bin_pack_trees EXCEPT ![tex_job.ii][tex_job.ix].tex_handle = Some(tex_job.tex_handle)]
  /\ tex_pc' = "write"
  /\ UNCHANGED <<cache_textures, next_tex_handle, tex_call, tex_result, issued, n_images,
                 tex_job, held_vars, panicked>>

\* lines 142-152: the pixels are written and Ok(tex_handle) is pushed
WriteTexture ==
  /\ panicked = "no"
  /\ UNCHANGED <<n_clones, lock_vars>>
  /\ tex_pc = "write"
  /\ tex_job' = [tex_job EXCEPT !.result = Append(@, Ok(tex_job.tex_handle))]
  /\ issued' = Append(issued, [handle |-> tex_job.tex_handle, ix |-> tex_job.ii - 1,
                               rect |-> bin_pack_trees[tex_job.ii][tex_job.ix].space])
  /\ tex_pc' = "next"
  /\ UNCHANGED <<cache_textures, bin_pack_trees, next_tex_handle, tex_call, tex_result,
                 n_images, held_vars, panicked>>

\* if tex_ix.is_none() (lines 103-130): NoSpace, DimensionsNotSupported, or
\* self.cache_textures.push(tex.unwrap())
NewPage ==
  /\ panicked = "no"
  /\ UNCHANGED <<n_clones, lock_vars>>
  /\ tex_pc = "grow"
  /\ IF CapReached(max_cache_textures, Len(cache_textures))
     THEN /\ tex_job' = [tex_job EXCEPT !.result = Append(@, Err("NoSpace"))]
          /\ tex_pc' = "next"
          /\ UNCHANGED cache_textures
     ELSE IF ~BackendAccepts(cache_texture_size)
     THEN /\ tex_job' = [tex_job EXCEPT !.result = Append(@, Err("DimensionsNotSupported"))]
          /\ tex_pc' = "next"
          /\ UNCHANGED cache_textures
     ELSE /\ cache_textures' = Append(cache_textures, cache_texture_size)
          /\ tex_pc' = "push_tree"
          /\ UNCHANGED tex_job
  /\ UNCHANGED <<bin_pack_trees, next_tex_handle, tex_call, tex_result, issued, n_images,
                 held_vars, panicked>>

\* bin_pack_trees.push(BinaryTreeNode::new([0.0, 0.0, 1.0, 1.0])), and the
\* fit check of the pack_rect(..).unwrap() of lines 135-138
NewTree ==
  /\ panicked = "no"
  /\ UNCHANGED <<n_clones, lock_vars>>
  /\ tex_pc = "push_tree"
  /\ bin_pack_trees' = Append(bin_pack_trees, <<NewNode(<<0, 0, UNIT, UNIT>>)>>)
  /\ tex_job' = [tex_job EXCEPT !.ii = Len(bin_pack_trees) + 1, !.ix = 1]
  /\ IF Fits(<<0, 0, UNIT, UNIT>>, tex_job.w, tex_job.h)
     THEN tex_pc' = "l_child" /\ UNCHANGED panicked
     ELSE panicked' = "cache_tex" /\ UNCHANGED tex_pc
  /\ UNCHANGED <<cache_textures, next_tex_handle, tex_call, tex_result, issued, n_images,
                 held_vars>>

\* The cache as a reader expects it: every tree has its page texture and the
\* image it was created for, and every node is either a free leaf without
\* children or an occupied node whose rect is set and whose two children
\* start where that rect ends.
Whole ==
  /\ Len(bin_pack_trees) = Len(cache_textures)
  /\ \A p \in 1..Len(bin_pack_trees) :
       LET t == bin_pack_trees[p] IN
       /\ ~is_leaf(t[1])
       /\ \A i \in 1..Len(t) :
            IF is_leaf(t[i]) THEN t[i].l_child = 0 /\ t[i].r_child = 0
            ELSE /\ t[i].l_child /= 0 /\ t[i].r_child /= 0
                 /\ t[t[i].l_child].space[2] = t[i].space[2] + t[i].space[4]
                 /\ t[t[i].r_child].space[1] = t[i].space[1] + t[i].space[3]

\* The handle the readers ask rect_for for: the first one handed out
LookupArgs == {0}

\* A controller thread reads its lookup view: rect_for of Arc<BinaryTree>,
\* as in RendererController::lookup_tex.  No lock is taken.
LookupView(tex) ==
  /\ panicked = "no"
  /\ UNCHANGED <<n_clones, lock_vars>>
  /\ tex_lookups > 0
  /\ lookup_seen' = [tex |-> tex, found |-> rect_for(bin_pack_trees, tex), whole |-> Whole]
  /\ UNCHANGED <<max_cache_textures, cache_texture_size, cache_textures, bin_pack_trees,
                 next_tex_handle, tex_lookups, tex_call, tex_result, issued, n_images,
                 tex_pc, tex_job, font_vars, ctl_vars, prod_vars, chan_vars, panicked>>

\* rect_for of the GliumTexCache itself, reached through the mutex
LookupCache(tex) ==
  /\ panicked = "no"
  /\ UNCHANGED <<n_clones, lock_vars>>
  /\ tex_pc = "idle"
  /\ lookup_seen' = [tex |-> tex, found |-> rect_for(bin_pack_trees, tex), whole |-> Whole]
  /\ UNCHANGED <<max_cache_textures, cache_texture_size, cache_textures, bin_pack_trees,
                 next_tex_handle, tex_lookups, tex_call, tex_result, issued, n_images,
                 tex_pc, tex_job, font_vars, ctl_vars, prod_vars, chan_vars, panicked>>

----------------------------------------------------------------------------
\* res/font/glium_cache.rs
\*
\* rusttype::gpu_cache::Cache is modelled by what cache_glyphs and rect_for
\* rely on: a set of resident glyphs keyed by font id, glyph and scale,
\* matched within the scale tolerance the cache was created with, that grows
\* by the queued glyphs when cache_queued succeeds and refuses the whole
\* queue when it has no room for it.

\* (scale * 100.0) as u32
ScaledSize(scale) == (scale * 100) \div 1000

FontSpecNoPath(path, x_scale, y_scale) == [path |-> "", x_scale |-> x_scale, y_scale |-> y_scale]

\* FontSpec::new
FontSpec(path, x_scale, y_scale) == [path |-> path, x_scale |-> x_scale, y_scale |-> y_scale]

\* Cache::new(CACHE_W, CACHE_H, 0.1, 1.0): the scale tolerance, in 1/1000 pt
ScaleTolerance == 100

Abs(x) == IF x < 0 THEN -x ELSE x

FontHandleAlwaysNew(handles, fs) == None

\* self.font_handles.get(&fs): the handle registered for the FontSpec, if any
font_handle_for(handles, fs) ==
  IF \E e \in handles : e.spec = fs
  THEN Some((CHOOSE e \in handles : e.spec = fs).fh)
  ELSE None

\* Cache::rect_for(font_id, glyph): "none" for a glyph with no bounding box,
\* "rect" for a resident glyph, "GlyphNotCached" otherwise
cache_rect_for(ch, font_id, g) ==
  IF ~HasBox(g.c) THEN "none"
  ELSE IF \E e \in ch : e.font_id = font_id /\ e.c = g.c
                        /\ Abs(e.scale - g.scale) < ScaleTolerance
  THEN "rect"
  ELSE "GlyphNotCached"

\* The duplicate filter of cache_glyphs: charset[ii] is kept unless another
\* index holds the same char.
RECURSIVE no_dup_from(_, _)
no_dup_from(charset, ii) ==
  IF ii > Len(charset) THEN <<>>
  ELSE LET dup == \E jj \in 1..Len(charset) : ii /= jj /\ charset[ii] = charset[jj]
       IN (IF dup THEN <<>> ELSE <<charset[ii]>>) \o no_dup_from(charset, ii + 1)

no_dup(charset) == no_dup_from(charset, 1)

\* The loop over no_dup: [not_found, queue]
RECURSIVE scan_glyphs(_, _, _, _, _, _)
scan_glyphs(chars, ii, path, scale, fh, ch) ==
  IF ii > Len(chars) THEN [glyphs_not_found |-> <<>>, queue |-> {}]
  ELSE LET rest == scan_glyphs(chars, ii + 1, path, scale, fh, ch)
           c == chars[ii]
           g == [c |-> c, scale |-> scale]
       IN IF c \notin Mapped(path)
          THEN [rest EXCEPT !.glyphs_not_found = <<c>> \o @]
          ELSE IF cache_rect_for(ch, fh, g) = "GlyphNotCached"
          THEN [rest EXCEPT !.queue = @ \cup {[font_id |-> fh, c |-> c, scale |-> scale]}]
          ELSE rest

\* GlyphLookup::get_glyph for GliumGlyphLookup
get_glyph(fs, fh, c) ==
  IF ~\E f \in fs : f.fh = fh THEN None
  ELSE LET f == CHOOSE f \in fs : f.fh = fh IN
       IF c \notin Mapped(f.path) THEN None
       ELSE Some([c |-> c, scale |-> f.scale])

\* GlyphLookup::rect_for: "CacheReadError", "none" or "rect"
glyph_rect_for(fs, ch, fh, c) ==
  LET g == get_glyph(fs, fh, c) IN
  IF g = None THEN "CacheReadError"
  ELSE LET r == cache_rect_for(ch, fh, Unwrap(g)) IN
       IF r = "GlyphNotCached" THEN "CacheReadError" ELSE r

\* FontCache::cache_glyphs(filepath, scale, charset)
cache_glyphs(filepath, scale, charset) ==
  /\ panicked = "no"
  /\ UNCHANGED n_clones
  /\ n_glyph_calls < MaxGlyphCalls
  /\ n_glyph_calls' = n_glyph_calls + 1
  /\ glyph_call' = [path |-> filepath, scale |-> scale, charset |-> charset]
  /\ glyph_repeated' = (glyph_call' = glyph_call /\ glyph_result.tag = "Ok")
  /\ IF filepath \notin Paths
     THEN \* try!(File::open(..))
          /\ glyph_result' = [tag |-> "IoError", fh |-> None, chars |-> <<>>]
          /\ UNCHANGED <<font_handles, curr_font_handle, fonts, cache>>
     ELSE
       LET fs == FontSpec(filepath, ScaledSize(scale), ScaledSize(scale))
           registered == font_handle_for(font_handles, fs)
           known == IsSome(registered)
           \* get_next_font_handle when the FontSpec is new
           fh == IF known THEN Unwrap(registered) ELSE curr_font_handle
           scan == scan_glyphs(no_dup(charset), 1, filepath, scale, fh, cache)
       IN /\ curr_font_handle' = IF known THEN curr_font_handle ELSE curr_font_handle + 1
          /\ font_handles' = IF known THEN font_handles
                             ELSE font_handles \cup {[spec |-> fs, fh |-> fh]}
          /\ IF scan.glyphs_not_found /= <<>>
             THEN /\ glyph_result' = [tag |-> "GlyphNotSupported", fh |-> None,
                                      chars |-> scan.glyphs_not_found]
                  /\ UNCHANGED <<fonts, cache>>
             ELSE IF Cardinality(cache \cup scan.queue) > GlyphCap
             THEN \* cache_queued(..).map_err(|_| CacheTooSmall)
                  /\ glyph_result' = [tag |-> "CacheTooSmall", fh |-> None, chars |-> <<>>]
                  /\ UNCHANGED <<fonts, cache>>
             ELSE /\ cache' = cache \cup scan.queue
                  /\ fonts' = IF \E f \in fonts : f.fh = fh THEN fonts
                              ELSE fonts \cup {[fh |-> fh, path |-> filepath, scale |-> scale]}
                  /\ glyph_result' = [tag |-> "Ok", fh |-> Some(fh), chars |-> <<>>]
  /\ UNCHANGED <<tex_vars, ctl_vars, prod_vars, chan_vars, panicked>>

\* Renderer::cache_glyphs in a program of one thread
CacheGlyphs(filepath, scale, charset) == cache_glyphs(filepath, scale, charset) /\ UNCHANGED lock_vars

----------------------------------------------------------------------------
\* renderer/controller.rs

\* A vertex.  pos stands for the position the caller gave (the model gives
\* every call of a producer its own), corner numbers the vertices of one shape.
Vertex(pos, tex_type, tex_ix, uv, corner) ==
  [pos |-> pos, tex_type |-> tex_type, tex_ix |-> tex_ix, uv |-> uv, corner |-> corner]

\* The loop of text over the chars from ii on: the vertices, or "panic" when
\* an unwrap fails.  Both arguments of each unwrap_or are evaluated.
RECURSIVE text_vertices(_, _, _, _, _, _)
text_vertices(fs, ch, fh, text, pos, ii) ==
  IF ii > Len(text) THEN <<>>
  ELSE
    LET c == text[ii]
        fallback_glyph == get_glyph(fs, fh, "?")
        fallback_rect == glyph_rect_for(fs, ch, fh, "?")
        rect == glyph_rect_for(fs, ch, fh, c)
        used == IF rect = "CacheReadError" THEN "?" ELSE c
        drawn == IF rect = "CacheReadError" THEN fallback_rect ELSE rect
        rest == text_vertices(fs, ch, fh, text, pos, ii + 1)
    IN IF fallback_glyph = None \/ fallback_rect = "CacheReadError" THEN "panic"
       ELSE IF rest = "panic" THEN "panic"
       ELSE IF drawn = "none" THEN rest
       ELSE [k \in 1..6 |-> Vertex(pos, "Font", 0, <<fh, used>>, k)] \o rest

\* self.buffer.append(&mut data) of controller p
AppendToBuffer(p, data) ==
  /\ buffer' = [buffer EXCEPT ![p] = @ \o data]
  /\ submitted' = [submitted EXCEPT ![p] = @ \o data]

\* RendererController::text(text, pos, font_handle, tint), with a handle that
\* cache_glyphs returned
Text(p, text, pos, font_handle) ==
  /\ panicked = "no"
  /\ UNCHANGED <<n_clones, lock_vars>>
  /\ n_text_calls < MaxTextCalls
  /\ \E f \in fonts : f.fh = font_handle
  /\ n_text_calls' = n_text_calls + 1
  /\ text_call' = [text |-> text, fh |-> font_handle]
  /\ LET vertices == text_vertices(fonts, cache, font_handle, text, pos, 1) IN
     IF vertices = "panic"
     THEN /\ panicked' = "text"
          /\ UNCHANGED <<buffer, submitted>>
     ELSE /\ AppendToBuffer(p, vertices)
          /\ UNCHANGED panicked
  /\ UNCHANGED <<tex_vars, font_vars, n_calls, chan_vars>>

LookupTexPageZero(trees, tex) ==
  LET ix_rect_opt == rect_for(trees, tex) IN
  IF ix_rect_opt = None THEN None
  ELSE LET rect == Unwrap(ix_rect_opt)[2]
       IN Some(<<0, <<rect[1], rect[2], rect[1] + rect[3], rect[2] + rect[4]>>>>)

\* RendererController::lookup_tex: the page index and the rect as x0, y0, x1, y1
lookup_tex(trees, tex) ==
  LET ix_rect_opt == rect_for(trees, tex) IN
  IF ix_rect_opt = None THEN None
  ELSE LET tex_ix == Unwrap(ix_rect_opt)[1]
           rect == Unwrap(ix_rect_opt)[2]
       IN Some(<<tex_ix, <<rect[1], rect[2], rect[1] + rect[3], rect[2] + rect[4]>>>>)

\* The texture handle of the 1x1 white image QGFX::new caches first and gives
\* to every controller.
White == 0

LineVerticesOfFont(pos) == [k \in 1..6 |-> Vertex(pos, "Font", 0, <<0, 0>>, k)]

\* The six vertices line pushes: tex_type Texture, tex_ix 0, tex_coords
\* [0.0, 0.0], all written out in the source
line_vertices(pos) == [k \in 1..6 |-> Vertex(pos, "Texture", 0, <<0, 0>>, k)]

\* RendererController::line(p1, p2, w, col): six vertices of texture page 0
Line(p, pos) ==
  /\ panicked = "no"
  /\ UNCHANGED <<n_clones, lock_vars>>
  /\ n_calls[p] < MaxCalls
  /\ n_calls' = [n_calls EXCEPT ![p] = @ + 1]
  /\ AppendToBuffer(p, line_vertices(pos))
  /\ UNCHANGED <<tex_vars, font_vars, text_call, n_text_calls, chan_vars, panicked>>

\* the vertices of rect and circle: all at the centre of the white rect
white_vertices(found, pos, n) ==
  LET tex_ix == Unwrap(found)[1]
      rect == Unwrap(found)[2]
      t_x == (rect[1] + rect[3]) \div 2
      t_y == (rect[2] + rect[4]) \div 2
  IN [k \in 1..n |-> Vertex(pos, "Texture", tex_ix, <<t_x, t_y>>, k)]

\* RendererController::rect(aabb, col)
Rect(p, pos) ==
  /\ panicked = "no"
  /\ UNCHANGED <<n_clones, lock_vars>>
  /\ n_calls[p] < MaxCalls
  /\ n_calls' = [n_calls EXCEPT ![p] = @ + 1]
  /\ LET found == lookup_tex(bin_pack_trees, White) IN
     IF found = None
     THEN \* self.lookup_tex(self.white).unwrap()
          /\ panicked' = "rect"
          /\ UNCHANGED <<buffer, submitted>>
     ELSE /\ AppendToBuffer(p, white_vertices(found, pos, 6))
          /\ UNCHANGED panicked
  /\ UNCHANGED <<tex_vars, font_vars, text_call, n_text_calls, chan_vars>>

\* RendererController::circle(pos, rad, segments, col): three vertices a segment
Circle(p, pos, segments) ==
  /\ panicked = "no"
  /\ UNCHANGED <<n_clones, lock_vars>>
  /\ n_calls[p] < MaxCalls
  /\ n_calls' = [n_calls EXCEPT ![p] = @ + 1]
  /\ LET found == lookup_tex(bin_pack_trees, White) IN
     IF found = None
     THEN /\ panicked' = "circle"
          /\ UNCHANGED <<buffer, submitted>>
     ELSE /\ AppendToBuffer(p, white_vertices(found, pos, 3 * segments))
          /\ UNCHANGED panicked
  /\ UNCHANGED <<tex_vars, font_vars, text_call, n_text_calls, chan_vars>>

\* What tex returns and the vertices it made: try!(..ok_or(RenderTextureError))
\* returns before any vertex is made.
tex_vertices(trees, pos, tex) ==
  LET found == lookup_tex(trees, tex) IN
  IF found = None THEN [tag |-> "RenderTextureError", vertices |-> <<>>]
  ELSE LET tex_ix == Unwrap(found)[1]
           rect == Unwrap(found)[2]
           uvs == <<<<rect[1], rect[4]>>, <<rect[3], rect[4]>>, <<rect[3], rect[2]>>,
                    <<rect[1], rect[4]>>, <<rect[1], rect[2]>>, <<rect[3], rect[2]>>>>
       IN [tag |-> "Ok",
           vertices |-> [k \in 1..6 |-> Vertex(pos, "Texture", tex_ix, uvs[k], k)]]

\* RendererController::tex(tex, aabb, tint): Err(RenderTextureError) appends
\* nothing
Tex(p, pos, tex) ==
  /\ panicked = "no"
  /\ UNCHANGED <<n_clones, lock_vars>>
  /\ n_calls[p] < MaxCalls
  /\ n_calls' = [n_calls EXCEPT ![p] = @ + 1]
  /\ LET res == tex_vertices(bin_pack_trees, pos, tex) IN
     IF res.tag = "RenderTextureError"
     THEN UNCHANGED <<buffer, submitted>>
     ELSE AppendToBuffer(p, res.vertices)
  /\ UNCHANGED <<tex_vars, font_vars, text_call, n_text_calls, chan_vars, panicked>>

ReplaceKeepsBuffer(buf) == [v_data |-> buf, buffer |-> buf]

\* let v_data = replace(&mut self.buffer, empty)
replace_buffer(buf) == [v_data |-> buf, buffer |-> <<>>]

\* RendererController::flush: the buffer is replaced by an empty one and sent
\* as one message.  mpsc::channel() has no capacity; the model stops sending
\* at MaxChannel waiting messages.
Flush(p) ==
  /\ panicked = "no"
  /\ UNCHANGED <<n_clones, lock_vars>>
  /\ Len(channel) < MaxChannel
  /\ channel' = Append(channel, replace_buffer(buffer[p]).v_data)
  /\ buffer' = [buffer EXCEPT ![p] = replace_buffer(buffer[p]).buffer]
  /\ units' = IF buffer[p] = <<>> THEN units ELSE units \cup {buffer[p]}
  /\ UNCHANGED <<tex_vars, font_vars, text_call, n_text_calls, prod_vars,
                 v_data_list, recv_pc, recv_list, at_start, drained, n_received, draws,
                 rendered, panicked>>

\* #[derive(Clone)] of RendererController: controller q becomes a clone of
\* controller p.  Every field is cloned, the buffer with the vertices waiting
\* in it included; both controllers send on the same channel.
CloneController(p, q) ==
  /\ panicked = "no"
  /\ UNCHANGED lock_vars
  /\ p /= q
  /\ buffer[q] = <<>>
  /\ n_clones < MaxClones
  /\ n_clones' = n_clones + 1
  /\ buffer' = [buffer EXCEPT ![q] = buffer[p]]
  /\ UNCHANGED <<tex_vars, font_vars, text_call, n_text_calls, prod_vars, chan_vars, panicked>>

----------------------------------------------------------------------------
\* renderer/mod.rs

KeyMatchIdOnly(e, v) == e.tex_ix = v.tex_ix

KeyMatchTypeOnly(e, v) == e.tex_type = v.tex_type

\* id == v.tex_ix && tex_type == v.tex_type
KeyMatch(e, v) == e.tex_ix = v.tex_ix /\ e.tex_type = v.tex_type

PushVertexFront(list, ii, v) ==
  IF \E jj \in 1..Len(list) : KeyMatch(list[jj], v)
  THEN LET jj == CHOOSE jj \in 1..Len(list) : KeyMatch(list[jj], v)
       IN [list EXCEPT ![jj].list = <<v>> \o @]
  ELSE Append(list, [tex_ix |-> v.tex_ix, tex_type |-> v.tex_type, list |-> <<v>>])

\* The body of the loop 'Outer for one vertex: push v onto the first list of
\* its key, or onto a new list at the end.
RECURSIVE push_vertex(_, _, _)
push_vertex(list, ii, v) ==
  IF ii > Len(list)
  THEN Append(list, [tex_ix |-> v.tex_ix, tex_type |-> v.tex_type, list |-> <<v>>])
  ELSE IF KeyMatch(list[ii], v)
  THEN [list EXCEPT ![ii].list = Append(@, v)]
  ELSE push_vertex(list, ii + 1, v)

\* for v in data_packet
RECURSIVE push_packet(_, _)
push_packet(list, data_packet) ==
  IF data_packet = <<>> THEN list
  ELSE push_packet(push_vertex(list, 1, Head(data_packet)), Tail(data_packet))

\* the vertex recv_data pads with
PadVertex == Vertex(<<0, 0>>, "Texture", 0, <<0, 0>>, 0)

\* while list.len() < VBO_SIZE { list.push(..) }
RECURSIVE pad(_)
pad(list) == IF Len(list) < VBO_SIZE THEN pad(Append(list, PadVertex)) ELSE list

\* The vertices of a packet or list that producer p drew
RECURSIVE FromProducer(_, _)
FromProducer(list, p) ==
  IF list = <<>> THEN <<>>
  ELSE (IF Head(list).pos[1] = p THEN <<Head(list)>> ELSE <<>>) \o FromProducer(Tail(list), p)

StoreAfterOld(old, new) == old \o new

\* self.v_data_list = v_data_list: the list built by this call replaces the
\* list of the renderer
store_batches(old, new) == new

\* Renderer::recv_data is entered: the local v_data_list is created.
RecvStart ==
  /\ panicked = "no"
  /\ UNCHANGED <<n_clones, lock_vars>>
  /\ recv_pc = "idle"
  /\ recv_pc' = "loop"
  /\ recv_list' = <<>>
  /\ at_start' = channel
  /\ drained' = <<>>
  /\ UNCHANGED <<tex_vars, font_vars, ctl_vars, prod_vars, channel, v_data_list, units,
                 n_received, draws, rendered, panicked>>

\* One turn of the loop of recv_data: try_recv, then either the packet is
\* sorted into the lists, or on Empty the lists are padded and stored.
RecvTry ==
  /\ panicked = "no"
  /\ UNCHANGED <<n_clones, lock_vars>>
  /\ recv_pc = "loop"
  /\ IF channel = <<>>
     THEN /\ v_data_list' = store_batches(v_data_list,
                                          [ii \in 1..Len(recv_list) |->
                                             [recv_list[ii] EXCEPT !.list = pad(@)]])
          /\ recv_pc' = "idle"
          /\ recv_list' = <<>>
          /\ at_start' = <<>>
          /\ rendered' = FALSE
          /\ UNCHANGED <<channel, drained, n_received>>
     ELSE /\ recv_list' = push_packet(recv_list, Head(channel))
          /\ channel' = Tail(channel)
          /\ drained' = drained \o Head(channel)
          /\ n_received' = [p \in Producers |-> n_received[p] + Len(FromProducer(Head(channel), p))]
          /\ UNCHANGED <<v_data_list, recv_pc, at_start, rendered>>
  /\ UNCHANGED <<tex_vars, font_vars, ctl_vars, prod_vars, units, draws, panicked>>

\* #[cfg(feature = "vbo_overflow_panic")]: if list.len() >= VBO_SIZE { panic! }
\* for some list
vbo_overflow(list) == \E ii \in 1..Len(list) : Len(list[ii].list) >= VBO_SIZE

\* The last turn of the loop of recv_data in a build with the feature
\* vbo_overflow_panic: the lists are tested before they are padded and
\* stored.  The other turns are those of RecvTry.
RecvTryStrict ==
  IF channel = <<>> /\ vbo_overflow(recv_list)
  THEN /\ panicked = "no"
       /\ recv_pc = "loop"
       /\ panicked' = "recv_data"
       /\ UNCHANGED <<tex_vars, font_vars, ctl_vars, prod_vars, chan_vars, n_clones, lock_vars>>
  ELSE RecvTry

\* A sender of the vertex channel sends a packet of n vertices of page tex_ix.
\* The channel carries any Vec<Vertex>.
SendPacket(n, tex_ix) ==
  /\ panicked = "no"
  /\ UNCHANGED <<n_clones, lock_vars>>
  /\ n_calls[1] < MaxCalls
  /\ Len(channel) < MaxChannel
  /\ n_calls' = [n_calls EXCEPT ![1] = @ + 1]
  /\ channel' = Append(channel,
                       [k \in 1..n |-> Vertex(<<1, n_calls[1]>>, "Texture", tex_ix, <<0, 0>>, k)])
  /\ UNCHANGED <<tex_vars, font_vars, text_call, n_text_calls, buffer, submitted,
                 v_data_list, recv_pc, recv_list, units, at_start, drained, n_received,
                 draws, rendered, panicked>>

HasTexBelowLast(e) == e.tex_type = "Font" \/ e.tex_ix + 1 < Len(cache_textures)

\* TexCache::get_tex_with_ix, and font_cache.get_tex() for a Font batch
has_tex(e) == e.tex_type = "Font" \/ e.tex_ix < Len(cache_textures)

\* the batches render draws before it returns or panics
RECURSIVE drawn_until(_, _)
drawn_until(list, ii) ==
  IF ii > Len(list) THEN [panic |-> FALSE, draws |-> <<>>]
  ELSE IF Len(list[ii].list) /= VBO_SIZE \/ ~has_tex(list[ii])
  THEN [panic |-> TRUE, draws |-> <<>>]
  ELSE LET rest == drawn_until(list, ii + 1) IN
       [rest EXCEPT !.draws = <<[tex_ix |-> list[ii].tex_ix, tex_type |-> list[ii].tex_type,
                                 len |-> Len(list[ii].list)]>> \o @]

\* Renderer::render: one vbo.write and one draw for each batch of
\* self.v_data_list.  VertexBuffer::write panics when the slice does not have
\* the length of the buffer; a Texture batch whose page does not exist panics.
Render ==
  /\ panicked = "no"
  /\ UNCHANGED <<n_clones, lock_vars>>
  /\ recv_pc = "idle"
  /\ LET res == drawn_until(v_data_list, 1) IN
     /\ draws' = res.draws
     /\ panicked' = IF res.panic THEN "render" ELSE "no"
  /\ rendered' = TRUE
  /\ UNCHANGED <<tex_vars, font_vars, ctl_vars, prod_vars, channel, v_data_list, recv_pc,
                 recv_list, units, at_start, drained, n_received>>

----------------------------------------------------------------------------
\* The mutexes of Renderer (font_cache, tex_cache) and the threads that call
\* render, cache_glyphs, cache_tex and get_renderer_controller, one statement
\* at a time.  A panic ends the thread it happens in; a MutexGuard dropped by
\* a panicking thread poisons its mutex, and lock().unwrap() on a poisoned
\* mutex panics.

At(op, at) == [op |-> op, at |-> at]

\* the threads that are in a call of op
InCall(op) == {t \in Threads : thread_pc[t].op = op}

\* everything but the mutexes and the threads
data_vars == <<tex_vars, font_vars, ctl_vars, prod_vars, chan_vars, panicked, n_clones>>

\* Arc::get_mut(..).expect(..) or the unwrap of cache_tex_internal panics
cache_tex_panics(bytes) ==
  cache_tex_internal(
    [next_tex_handle |-> next_tex_handle, cache_textures |-> cache_textures,
     bin_pack_trees |-> bin_pack_trees, result |-> <<>>, issued |-> issued,
     panicked |-> FALSE],
    bytes, max_cache_textures, cache_texture_size, tex_lookups).panicked

\* Thread t calls cache_glyphs, cache_tex or get_renderer_controller and
\* comes to its lock().  The calls of a run are counted as in the programs of
\* one thread.
Call(t, op) ==
  /\ thread_pc[t] = Idle
  /\ op = "cache_glyphs" => n_glyph_calls + Cardinality(InCall(op)) < MaxGlyphCalls
  /\ op = "cache_tex" => n_images + Cardinality(InCall(op)) < MaxImages
  /\ op = "get_renderer_controller" => tex_lookups + Cardinality(InCall(op)) < MaxLookups
  /\ thread_pc' = [thread_pc EXCEPT ![t] = At(op, "lock")]
  /\ UNCHANGED <<data_vars, font_lock, tex_lock>>

\* self.font_cache.lock().unwrap() of cache_glyphs and of render: the thread
\* waits while another thread holds the mutex
LockFont(t) ==
  /\ thread_pc[t] \in {At("cache_glyphs", "lock"), At("render", "font")}
  /\ font_lock \in {"free", "poisoned"}
  /\ IF font_lock = "poisoned"
     THEN /\ thread_pc' = [thread_pc EXCEPT ![t] = Panicked]
          /\ UNCHANGED font_lock
     ELSE /\ font_lock' = t
          /\ thread_pc' = [thread_pc EXCEPT
                             ![t] = IF @.op = "render" THEN At("render", "tex")
                                    ELSE At(@.op, "held")]
  /\ UNCHANGED <<data_vars, tex_lock>>

\* self.tex_cache.lock().unwrap() of cache_tex, cache_tex_from_bytes,
\* get_renderer_controller and render.  render holds the font_cache guard
\* here, and poisons that mutex when it panics.
LockTex(t) ==
  /\ thread_pc[t] \in {At("cache_tex", "lock"), At("get_renderer_controller", "lock"),
                       At("render", "tex")}
  /\ tex_lock \in {"free", "poisoned"}
  /\ IF tex_lock = "poisoned"
     THEN /\ thread_pc' = [thread_pc EXCEPT ![t] = Panicked]
          /\ font_lock' = IF font_lock = t THEN "poisoned" ELSE font_lock
          /\ UNCHANGED tex_lock
     ELSE /\ tex_lock' = t
          /\ thread_pc' = [thread_pc EXCEPT
                             ![t] = IF @.op = "render" THEN At("render", "draw")
                                    ELSE At(@.op, "held")]
          /\ UNCHANGED font_lock
  /\ UNCHANGED data_vars

\* Renderer::cache_glyphs with the mutex held: the call of the font cache,
\* and the guard is dropped
ThreadCacheGlyphs(t, filepath, scale, charset) ==
  /\ thread_pc[t] = At("cache_glyphs", "held")
  /\ cache_glyphs(filepath, scale, charset)
  /\ font_lock' = "free"
  /\ thread_pc' = [thread_pc EXCEPT ![t] = Idle]
  /\ UNCHANGED tex_lock

\* Renderer::get_renderer_controller with the mutex held
ThreadGetRendererController(t) ==
  /\ thread_pc[t] = At("get_renderer_controller", "held")
  /\ get_renderer_controller
  /\ tex_lock' = "free"
  /\ thread_pc' = [thread_pc EXCEPT ![t] = Idle]
  /\ UNCHANGED font_lock

\* Renderer::cache_tex with the mutex held.  When the cache panics the guard
\* is dropped by the unwinding thread; what the call wrote to the cache
\* before it panicked is behind the poisoned mutex and is left out.
ThreadCacheTex(t, bytes) ==
  /\ thread_pc[t] = At("cache_tex", "held")
  /\ IF cache_tex_panics(bytes)
     THEN /\ thread_pc' = [thread_pc EXCEPT ![t] = Panicked]
          /\ tex_lock' = "poisoned"
          /\ UNCHANGED data_vars
     ELSE /\ cache_tex(bytes)
          /\ tex_lock' = "free"
          /\ thread_pc' = [thread_pc EXCEPT ![t] = Idle]
  /\ UNCHANGED font_lock

\* Renderer::render is called on the renderer thread: the loop over
\* self.v_data_list starts
CallRender ==
  /\ thread_pc["renderer"] = Idle
  /\ panicked = "no"
  /\ recv_pc = "idle"
  /\ draws' = <<>>
  /\ rendered' = TRUE
  /\ thread_pc' = [thread_pc EXCEPT
                     !["renderer"] = IF v_data_list = <<>> THEN Idle
                                     ELSE At("render", "write")]
  /\ UNCHANGED <<tex_vars, font_vars, ctl_vars, prod_vars, channel, v_data_list, recv_pc,
                 recv_list, units, at_start, drained, n_received, panicked, n_clones,
                 font_lock, tex_lock>>

\* self.vbo.write(list) for the batch the loop is at, before the mutexes are
\* locked
RenderWrite ==
  /\ thread_pc["renderer"] = At("render", "write")
  /\ thread_pc' = [thread_pc EXCEPT
                     !["renderer"] = IF Len(v_data_list[Len(draws) + 1].list) /= VBO_SIZE
                                     THEN Panicked
                                     ELSE At("render", "font")]
  /\ UNCHANGED <<data_vars, font_lock, tex_lock>>

\* The rest of the loop body with both guards held: the texture of the batch
\* is looked up and the batch is drawn; the guards are dropped at the end of
\* the iteration.
RenderDraw ==
  /\ thread_pc["renderer"] = At("render", "draw")
  /\ LET e == v_data_list[Len(draws) + 1] IN
     IF ~has_tex(e)
     THEN /\ thread_pc' = [thread_pc EXCEPT !["renderer"] = Panicked]
          /\ font_lock' = "poisoned"
          /\ tex_lock' = "poisoned"
          /\ UNCHANGED draws
     ELSE /\ draws' = Append(draws, [tex_ix |-> e.tex_ix, tex_type |-> e.tex_type,
                                     len |-> Len(e.list)])
          /\ font_lock' = "free"
          /\ tex_lock' = "free"
          /\ thread_pc' = [thread_pc EXCEPT
                             !["renderer"] = IF Len(draws') = Len(v_data_list) THEN Idle
                                             ELSE At("render", "write")]
  /\ UNCHANGED <<tex_vars, font_vars, ctl_vars, prod_vars, channel, v_data_list, recv_pc,
                 recv_list, units, at_start, drained, n_received, rendered, panicked,
                 n_clones>>

----------------------------------------------------------------------------
\* Renderer::new and RendererController::new: nothing buffered, sent, received
\* or drawn.
InitRenderer ==
  /\ buffer = [p \in Producers |-> <<>>]
  /\ n_clones = 0
  /\ font_lock = "free"
  /\ tex_lock = "free"
  /\ thread_pc = [t \in Threads |-> Idle]
  /\ text_call = [text |-> <<>>, fh |-> 0]
  /\ n_text_calls = 0
  /\ n_calls = [p \in Producers |-> 0]
  /\ submitted = [p \in Producers |-> <<>>]
  /\ channel = <<>>
  /\ v_data_list = <<>>
  /\ recv_pc = "idle"
  /\ recv_list = <<>>
  /\ units = {}
  /\ at_start = <<>>
  /\ drained = <<>>
  /\ n_received = [p \in Producers |-> 0]
  /\ draws = <<>>
  /\ rendered = FALSE
  /\ panicked = "no"

\* Construction: GliumTexCache::new, GliumFontCache::new, Renderer::new.
Init ==
  /\ max_cache_textures = 0
  /\ cache_texture_size = <<2048, 2048>>
  /\ cache_textures = <<>>
  /\ bin_pack_trees = <<>>
  /\ next_tex_handle = 0
  /\ tex_lookups = 0
  /\ tex_call = <<>>
  /\ tex_result = <<>>
  /\ issued = <<>>
  /\ n_images = 0
  /\ InitSteps
  /\ font_handles = {}
  /\ curr_font_handle = 0
  /\ fonts = {}
  /\ cache = {}
  /\ glyph_call = [path |-> "", scale |-> 0, charset |-> <<>>]
  /\ glyph_result = [tag |-> "none", fh |-> None, chars |-> <<>>]
  /\ glyph_repeated = FALSE
  /\ n_glyph_calls = 0
  /\ InitRenderer

\* The resources of a program that draws: QGFX::new has cached the 1x1 white
\* image (handle 0, page 0), and before any controller existed the program
\* cached a 2048 x 2048 image (handle 1, page 1).
Precached ==
  cache_tex_internal(
    [next_tex_handle |-> 0, cache_textures |-> <<>>, bin_pack_trees |-> <<>>,
     result |-> <<>>, issued |-> <<>>, panicked |-> FALSE],
    <<[kind |-> "image", w |-> 1, h |-> 1], [kind |-> "image", w |-> 2048, h |-> 2048]>>,
    0, <<2048, 2048>>, 0)

\* The state in which producers draw: the textures of Precached, the glyphs
\* 'a' and '?' of "a.ttf" cached at 32 pt (font handle 0), and one controller
\* for each producer, each holding a lookup view of the packing trees.
InitChan ==
  /\ max_cache_textures = 0
  /\ cache_texture_size = <<2048, 2048>>
  /\ cache_textures = Precached.cache_textures
  /\ bin_pack_trees = Precached.bin_pack_trees
  /\ next_tex_handle = Precached.next_tex_handle
  /\ tex_lookups = Cardinality(Producers)
  /\ tex_call = <<[kind |-> "image", w |-> 2048, h |-> 2048]>>
  /\ tex_result = <<Ok(1)>>
  /\ issued = Precached.issued
  /\ n_images = 2
  /\ InitSteps
  /\ font_handles = {[spec |-> FontSpec("a.ttf", ScaledSize(32000), ScaledSize(32000)), fh |-> 0]}
  /\ curr_font_handle = 1
  /\ fonts = {[fh |-> 0, path |-> "a.ttf", scale |-> 32000]}
  /\ cache = {[font_id |-> 0, c |-> c, scale |-> 32000] : c \in {"a", "?"}}
  /\ glyph_call = [path |-> "a.ttf", scale |-> 32000, charset |-> <<"a", "?">>]
  /\ glyph_result = [tag |-> "Ok", fh |-> Some(0), chars |-> <<>>]
  /\ glyph_repeated = FALSE
  /\ n_glyph_calls = 1
  /\ InitRenderer

\* The batches of images a run still has room for.
Batches == SeqsUpTo(TexInputs, IF MaxImages - n_images < MaxBatch
                               THEN MaxImages - n_images ELSE MaxBatch) \ {<<>>}

\* The texture cache and the lookup views of its controllers.
NextTex ==
  \/ \E bytes \in Batches : CacheTex(bytes)
  \/ \E n \in 0..MaxCap : SetMaxCacheTextures(n)
  \/ \E side \in PageSides : SetCacheTextureSize(side, side)
  \/ GetRendererController
  \/ DropController

SpecTex == Init /\ [][NextTex]_vars

\* The calls that take the mutex of the texture cache wait for a cache_tex
\* call in progress.
LockedSetMaxCacheTextures(n) == tex_pc = "idle" /\ SetMaxCacheTextures(n)
LockedSetCacheTextureSize(w, h) == tex_pc = "idle" /\ SetCacheTextureSize(w, h)
LockedGetRendererController == tex_pc = "idle" /\ GetRendererController

\* The texture cache with cache_tex taken statement by statement, one input
\* a call, and the threads that read it.
NextStep ==
  \/ \E buf \in TexInputs : BeginCacheTex(<<buf>>)
  \/ NextInput
  \/ TryPage
  \/ SetLChild
  \/ SetRChild
  \/ SetSpace
  \/ SetTexHandle
  \/ WriteTexture
  \/ NewPage
  \/ NewTree
  \/ \E n \in 0..MaxCap : LockedSetMaxCacheTextures(n)
  \/ \E side \in PageSides : LockedSetCacheTextureSize(side, side)
  \/ LockedGetRendererController
  \/ DropController
  \/ \E tex \in LookupArgs : LookupView(tex)
  \/ \E tex \in LookupArgs : LookupCache(tex)

SpecStep == Init /\ [][NextStep]_vars

\* The charsets of up to n codepoints, repeated ones included.
Charsets(n) ==
  {cs \in SeqsUpTo(CharsetChars, n) :
     \A i \in 1..(Len(cs) - 1) : CharRank(cs[i]) <= CharRank(cs[i + 1])}

\* The arguments of the cache_glyphs calls: every font file with every scale
\* and charset, and one call with a file that cannot be opened.
GlyphInputs ==
  {[path |-> p, scale |-> sc, charset |-> cs] :
     p \in Paths, sc \in Scales, cs \in Charsets(MaxCharset)}
  \cup {[path |-> "missing.ttf", scale |-> 32000, charset |-> <<"a">>]}

\* The glyph cache.
NextFont == \E in \in GlyphInputs : CacheGlyphs(in.path, in.scale, in.charset)

SpecFont == Init /\ [][NextFont]_vars

\* The glyph cache and the text a controller draws from it.
NextText ==
  \/ \E in \in GlyphInputs : CacheGlyphs(in.path, in.scale, in.charset)
  \/ \E text \in SeqsUpTo(Chars, MaxText), fh \in 0..MaxGlyphCalls : Text(1, text, <<1, 0>>, fh)

SpecText == Init /\ [][NextText]_vars

\* The position a producer gives its next shape
NextPos(p) == <<p, n_calls[p]>>

\* The texture handles tex is called with: a cached one and an unknown one
TexArgs == {1, 2}

\* One producer draws every kind of shape and flushes; the renderer thread
\* calls recv_data and render.
NextDraw ==
  \/ Line(1, NextPos(1))
  \/ Rect(1, NextPos(1))
  \/ Circle(1, NextPos(1), 1)
  \/ \E tex \in TexArgs : Tex(1, NextPos(1), tex)
  \/ Text(1, <<"a">>, NextPos(1), 0)
  \/ Flush(1)
  \/ RecvStart
  \/ RecvTry
  \/ Render

SpecDraw == InitChan /\ [][NextDraw]_vars

\* The producers draw lines and a texture, and flush, while the
\* renderer thread calls recv_data.
NextChan ==
  \/ \E p \in Producers : Line(p, NextPos(p))
  \/ \E p \in Producers : Tex(p, NextPos(p), 1)
  \/ \E p \in Producers : Flush(p)
  \/ RecvStart
  \/ RecvTry

SpecChan == InitChan /\ [][NextChan]_vars

\* The producers draw lines and flush; the renderer thread is scheduled again
\* and again.
NextLive ==
  \/ \E p \in Producers : Line(p, NextPos(p))
  \/ \E p \in Producers : Flush(p)
  \/ RecvStart
  \/ RecvTry

SpecLive == InitChan /\ [][NextLive]_vars /\ WF_vars(RecvTry)

\* One producer draws lines, textured quads and text and flushes, while the
\* renderer thread calls recv_data again and again.
NextRecv ==
  \/ Line(1, NextPos(1))
  \/ Tex(1, NextPos(1), 1)
  \/ Text(1, <<"a">>, NextPos(1), 0)
  \/ Flush(1)
  \/ RecvStart
  \/ RecvTry

SpecRecv == InitChan /\ [][NextRecv]_vars

\* The lengths of the packets sent to the strict recv_data: around the size
\* of the vertex buffer, and one vertex.
PacketLens == {1, VBO_SIZE - 1, VBO_SIZE, VBO_SIZE + 1}

\* Packets arrive on the channel while the renderer thread of a build with
\* vbo_overflow_panic calls recv_data.
NextStrict ==
  \/ \E n \in PacketLens, tex_ix \in {0, 1} : SendPacket(n, tex_ix)
  \/ RecvStart
  \/ RecvTryStrict

SpecStrict == InitChan /\ [][NextStrict]_vars

\* Controller 1 draws lines, controller 2 is made as a clone of it, both
\* flush, and the renderer thread receives.
NextClone ==
  \/ Line(1, NextPos(1))
  \/ CloneController(1, 2)
  \/ \E p \in Producers : Flush(p)
  \/ RecvStart
  \/ RecvTry

SpecClone == InitChan /\ [][NextClone]_vars

\* The handles a controller draws textured quads with: every handle the cache
\* can have handed out, and one more
QuadArgs == 0..MaxImages

\* tex called on a controller that get_renderer_controller returned
ControllerTex(tex) == tex_lookups > 0 /\ Tex(1, NextPos(1), tex)

\* A program caches images, gets a controller and draws textured quads.
NextQuad ==
  \/ \E bytes \in Batches : CacheTex(bytes)
  \/ GetRendererController
  \/ \E tex \in QuadArgs : ControllerTex(tex)

SpecQuad == Init /\ [][NextQuad]_vars

\* The cache filled one image at a time, under every page size: the trees
\* that pack_rect is called on.
NextPack ==
  \/ \E buf \in TexInputs : CacheTex(<<buf>>)
  \/ \E side \in PageSides : SetCacheTextureSize(side, side)

SpecPack == Init /\ [][NextPack]_vars

\* QGFX::new: the 1x1 white image is the first image cached, into the empty
\* cache with its default configuration.
WhiteCached ==
  cache_tex_internal(
    [next_tex_handle |-> 0, cache_textures |-> <<>>, bin_pack_trees |-> <<>>,
     result |-> <<>>, issued |-> <<>>, panicked |-> FALSE],
    <<[kind |-> "image", w |-> 1, h |-> 1]>>, 0, <<2048, 2048>>, 0)

\* The state QGFX::new returns in, with the glyphs 'a' and '?' of "a.ttf"
\* cached at 32 pt (font handle 0) and no controller yet.
InitApp ==
  /\ max_cache_textures = 0
  /\ cache_texture_size = <<2048, 2048>>
  /\ cache_textures = WhiteCached.cache_textures
  /\ bin_pack_trees = WhiteCached.bin_pack_trees
  /\ next_tex_handle = WhiteCached.next_tex_handle
  /\ tex_lookups = 0
  /\ tex_call = <<[kind |-> "image", w |-> 1, h |-> 1]>>
  /\ tex_result = WhiteCached.result
  /\ issued = WhiteCached.issued
  /\ n_images = 1
  /\ InitSteps
  /\ font_handles = {[spec |-> FontSpec("a.ttf", ScaledSize(32000), ScaledSize(32000)), fh |-> 0]}
  /\ curr_font_handle = 1
  /\ fonts = {[fh |-> 0, path |-> "a.ttf", scale |-> 32000]}
  /\ cache = {[font_id |-> 0, c |-> c, scale |-> 32000] : c \in {"a", "?"}}
  /\ glyph_call = [path |-> "a.ttf", scale |-> 32000, charset |-> <<"a", "?">>]
  /\ glyph_result = [tag |-> "Ok", fh |-> Some(0), chars |-> <<>>]
  /\ glyph_repeated = FALSE
  /\ n_glyph_calls = 1
  /\ InitRenderer

\* The geometry calls of the controller that get_renderer_controller returned
ControllerLine == tex_lookups > 0 /\ Line(1, NextPos(1))
ControllerRect == tex_lookups > 0 /\ Rect(1, NextPos(1))
ControllerCircle == tex_lookups > 0 /\ Circle(1, NextPos(1), 1)
ControllerText == tex_lookups > 0 /\ Text(1, <<"a">>, NextPos(1), 0)
ControllerFlush == tex_lookups > 0 /\ Flush(1)

\* The image the drawing program caches before it gets its controller: each
\* needs a page of its own.
AppImage == [kind |-> "image", w |-> 2048, h |-> 2048]
AppCacheTex == tex_lookups = 0 /\ CacheTex(<<AppImage>>)

\* A program caches images, gets its controller and draws solid shapes and
\* textured quads.
NextSolid ==
  \/ \E buf \in TexInputs : CacheTex(<<buf>>)
  \/ GetRendererController
  \/ ControllerLine
  \/ ControllerRect
  \/ ControllerCircle
  \/ \E tex \in QuadArgs : ControllerTex(tex)

SpecSolid == InitApp /\ [][NextSolid]_vars

\* A program caches images, then gets its controller, draws every kind of
\* shape and flushes, and the renderer calls recv_data and render.
NextApp ==
  \/ AppCacheTex
  \/ GetRendererController
  \/ ControllerLine
  \/ ControllerRect
  \/ ControllerCircle
  \/ \E tex \in TexArgs : ControllerTex(tex)
  \/ ControllerText
  \/ ControllerFlush
  \/ RecvStart
  \/ RecvTry
  \/ Render

SpecApp == InitApp /\ [][NextApp]_vars

\* The vertices of the one line a controller drew
OneLine == line_vertices(<<1, 0>>)

\* The state of a program that has drawn a frame's worth: after QGFX::new and
\* cache_glyphs as in InitApp, a controller was made, drew one line, flushed
\* and was dropped, and recv_data received the line.
InitLock ==
  /\ max_cache_textures = 0
  /\ cache_texture_size = <<2048, 2048>>
  /\ cache_textures = WhiteCached.cache_textures
  /\ bin_pack_trees = WhiteCached.bin_pack_trees
  /\ next_tex_handle = WhiteCached.next_tex_handle
  /\ tex_lookups = 0
  /\ tex_call = <<[kind |-> "image", w |-> 1, h |-> 1]>>
  /\ tex_result = WhiteCached.result
  /\ issued = WhiteCached.issued
  /\ n_images = 1
  /\ InitSteps
  /\ font_handles = {[spec |-> FontSpec("a.ttf", ScaledSize(32000), ScaledSize(32000)), fh |-> 0]}
  /\ curr_font_handle = 1
  /\ fonts = {[fh |-> 0, path |-> "a.ttf", scale |-> 32000]}
  /\ cache = {[font_id |-> 0, c |-> c, scale |-> 32000] : c \in {"a", "?"}}
  /\ glyph_call = [path |-> "a.ttf", scale |-> 32000, charset |-> <<"a", "?">>]
  /\ glyph_result = [tag |-> "Ok", fh |-> Some(0), chars |-> <<>>]
  /\ glyph_repeated = FALSE
  /\ n_glyph_calls = 1
  /\ buffer = [p \in Producers |-> <<>>]
  /\ text_call = [text |-> <<>>, fh |-> 0]
  /\ n_text_calls = 0
  /\ n_calls = [p \in Producers |-> IF p = 1 THEN 1 ELSE 0]
  /\ submitted = [p \in Producers |-> IF p = 1 THEN OneLine ELSE <<>>]
  /\ channel = <<>>
  /\ v_data_list = <<[tex_ix |-> 0, tex_type |-> "Texture", list |-> pad(OneLine)]>>
  /\ recv_pc = "idle"
  /\ recv_list = <<>>
  /\ units = {OneLine}
  /\ at_start = <<>>
  /\ drained = OneLine
  /\ n_received = [p \in Producers |-> IF p = 1 THEN 6 ELSE 0]
  /\ draws = <<>>
  /\ rendered = FALSE
  /\ panicked = "no"
  /\ n_clones = 0
  /\ font_lock = "free"
  /\ tex_lock = "free"
  /\ thread_pc = [t \in Threads |-> Idle]

\* The calls that take a mutex, each by the threads that make it
ThreadOps == {"cache_glyphs", "cache_tex", "get_renderer_controller"}

\* What a thread does once it is in a call, but for its lock() calls
Proceed(t) ==
  \/ ThreadCacheGlyphs(t, "b.ttf", 32000, <<"a">>)
  \/ ThreadGetRendererController(t)
  \/ ThreadCacheTex(t, <<AppImage>>)
  \/ t = "renderer" /\ (RenderWrite \/ RenderDraw)

\* The renderer thread renders again and again while the other threads cache
\* glyphs and images and make controllers.
NextLock ==
  \/ \E t \in Workers, op \in ThreadOps : Call(t, op)
  \/ \E t \in Threads : LockFont(t)
  \/ \E t \in Threads : LockTex(t)
  \/ \E t \in Workers : ThreadCacheGlyphs(t, "b.ttf", 32000, <<"a">>)
  \/ \E t \in Workers : ThreadGetRendererController(t)
  \/ \E t \in Workers : ThreadCacheTex(t, <<AppImage>>)
  \/ CallRender
  \/ RenderWrite
  \/ RenderDraw

\* A thread that is in a call runs; a thread that waits for a mutex gets it
\* if the mutex is free again and again.  No thread has to make a call.
SpecLock ==
  /\ InitLock
  /\ [][NextLock]_vars
  /\ \A t \in Threads : WF_vars(Proceed(t))
  /\ \A t \in Threads : SF_vars(LockFont(t)) /\ SF_vars(LockTex(t))

----------------------------------------------------------------------------
\* The claims about the texture cache (SpecTex).

Range(q) == {q[i] : i \in 1..Len(q)}

Area(r) == r[3] * r[4]
Overlap(a, b) ==
  /\ a[1] < b[1] + b[3] /\ b[1] < a[1] + a[3]
  /\ a[2] < b[2] + b[4] /\ b[2] < a[2] + a[4]

Occupied(t) == {i \in 1..Len(t) : ~is_leaf(t[i])}

\* C1: in every page's packing tree, no two occupied rects of positive area
\* overlap.
C1_NoOverlap ==
  \A p \in 1..Len(bin_pack_trees) :
    LET t == bin_pack_trees[p] IN
    \A i \in Occupied(t), j \in Occupied(t) :
      (i < j /\ Area(t[i].space) > 0 /\ Area(t[j].space) > 0)
        => ~Overlap(t[i].space, t[j].space)

\* A decodable image no larger than the page size.
InBounds(buf, size) == buf.kind = "image" /\ buf.w <= size[1] /\ buf.h <= size[2]

\* C2: with the page cap 0 and a page size the backend accepts, every request
\* of a cache_tex call for a decodable image within the page size returns
\* Ok(handle).
C2_InBoundsIsOk ==
  [][(n_images' /= n_images /\ max_cache_textures = 0 /\ BackendAccepts(cache_texture_size))
       => \A i \in 1..Len(tex_call') :
            InBounds(tex_call'[i], cache_texture_size)
              => (panicked' /= "cache_tex" /\ tex_result'[i].tag = "Ok")]_vars

InUnitSquare(r) ==
  /\ 0 <= r[1] /\ 0 <= r[2]
  /\ r[1] + r[3] <= UNIT /\ r[2] + r[4] <= UNIT

\* C3: rect_for of every handle a cache_tex call returned is a rect inside
\* the unit square of its page.
C3_RectInUnitSquare ==
  \A k \in 1..Len(issued) :
    LET r == rect_for(bin_pack_trees, issued[k].handle) IN
    IsSome(r) /\ InUnitSquare(Unwrap(r)[2])

\* a handle whose rect starts right of the page's left edge and ends on its
\* right edge
C3_Witness ==
  \E k \in 1..Len(issued) :
    LET r == rect_for(bin_pack_trees, issued[k].handle) IN
    IsSome(r) /\ Unwrap(r)[2][1] > 0 /\ Unwrap(r)[2][1] + Unwrap(r)[2][3] = UNIT

\* C4: rect_for of a returned handle is the (page index, rect) it was given
\* when it was cached, whatever cache_tex calls came after.
C4_RectNeverChanges ==
  \A k \in 1..Len(issued) :
    rect_for(bin_pack_trees, issued[k].handle) = Some(<<issued[k].ix, issued[k].rect>>)

\* at least two handles were returned, there are two pages, and the last call had a request
\* that failed with NoSpace
C4_Witness ==
  /\ Len(issued) >= 2
  /\ Len(bin_pack_trees) >= 2
  /\ \E i \in 1..Len(tex_result) : tex_result[i].tag = "NoSpace"

\* C5: a cache_tex call made while lookup views are alive completes with one
\* result per image; it does not abort.
C5_CompletesWithLookupsAlive ==
  [][(n_images' /= n_images /\ tex_lookups > 0)
       => (panicked' /= "cache_tex" /\ Len(tex_result') = Len(tex_call'))]_vars

----------------------------------------------------------------------------
\* More claims about the texture cache (SpecTex).

\* The last cache_tex call was made on a cache with no page and cached the
\* same decodable image twice, both times with Ok.
TwoOfTheSame ==
  /\ n_images' /= n_images
  /\ cache_textures = <<>>
  /\ Len(tex_call') = 2
  /\ tex_call'[1] = tex_call'[2]
  /\ tex_call'[1].kind = "image"
  /\ panicked' = "no"
  /\ tex_result'[1].tag = "Ok" /\ tex_result'[2].tag = "Ok"

\* The first image is at the page's origin and the second immediately to its
\* right, on page 0.
SecondIsRightOfFirst ==
  LET w == Norm(tex_call'[1].w, cache_texture_size[1])
      h == Norm(tex_call'[1].h, cache_texture_size[2])
  IN /\ rect_for(bin_pack_trees', Unwrap(tex_result'[1].handle)) = Some(<<0, <<0, 0, w, h>>>>)
     /\ rect_for(bin_pack_trees', Unwrap(tex_result'[2].handle)) = Some(<<0, <<w, 0, w, h>>>>)

C19_FullPageIsNoSpace ==
  [][(/\ n_images' /= n_images
      /\ max_cache_textures = 1
      /\ Len(cache_textures) = 1
      /\ InBounds(tex_call'[1], cache_texture_size)
      /\ ~pack_rect(bin_pack_trees[1], 1,
                    Norm(tex_call'[1].w, cache_texture_size[1]),
                    Norm(tex_call'[1].h, cache_texture_size[2]), next_tex_handle).ok)
       => /\ panicked' /= "cache_tex"
          /\ tex_result'[1].tag = "NoSpace"
          /\ Len(cache_textures') = 1
          /\ (Len(tex_call') = 1 => bin_pack_trees' = bin_pack_trees)
          /\ \A k \in 1..Len(issued) :
               rect_for(bin_pack_trees', issued[k].handle)
                 = Some(<<issued[k].ix, issued[k].rect>>)]_vars

\* C20: of two requests that returned Ok, the later one returned the strictly
\* greater handle.
C20_HandlesIncrease ==
  \A i \in 1..Len(issued), j \in 1..Len(issued) :
    i < j => issued[i].handle < issued[j].handle

\* two handles were returned, with a request between them that consumed a
\* handle and failed
C20_Witness ==
  /\ Len(issued) >= 2
  /\ issued[2].handle > issued[1].handle + 1

----------------------------------------------------------------------------
\* The claims about the glyph cache (SpecFont) and text (SpecText).

\* The (handle, codepoint) pairs rect_for answers without CacheReadError.
Queryable(fs, ch) ==
  {<<f.fh, c>> : f \in fs, c \in Chars} \cap
  {q \in (0..MaxGlyphCalls) \X Chars : glyph_rect_for(fs, ch, q[1], q[2]) /= "CacheReadError"}

\* C6: after a successful cache_glyphs, every codepoint of the font that
\* occurs in the charset, once or several times, is resident for the returned
\* handle: rect_for(handle, c) is not CacheReadError.
C6_CharsetResident ==
  glyph_result.tag = "Ok"
    => \A c \in Range(glyph_call.charset) \cap Mapped(glyph_call.path) :
         glyph_rect_for(fonts, cache, Unwrap(glyph_result.fh), c) /= "CacheReadError"

\* The last call asked for exactly one codepoint its font does not map.
OneUnmapped(call) ==
  /\ call.path \in Paths
  /\ Cardinality({c \in Range(call.charset) : c \notin Mapped(call.path)}) = 1

\* C7: a cache_glyphs call that asks for one codepoint the font does not map,
\* among mapped ones, returns GlyphNotSupported and makes nothing queryable
\* that was not before, for this handle or another.
C7_OneUnmappedFailsAll ==
  [][(n_glyph_calls' /= n_glyph_calls /\ OneUnmapped(glyph_call'))
       => (glyph_result'.tag = "GlyphNotSupported"
           /\ Queryable(fonts', cache') = Queryable(fonts, cache))]_vars

\* C8: a cache_glyphs call that fails with GlyphNotSupported or CacheTooSmall
\* leaves the registry, the handle counter, the font table and the resident
\* glyphs as they were.
C8_FailureChangesNothing ==
  [][(n_glyph_calls' /= n_glyph_calls
      /\ glyph_result'.tag \in {"GlyphNotSupported", "CacheTooSmall"})
       => UNCHANGED <<font_handles, curr_font_handle, fonts, cache>>]_vars

\* C9: a cache_glyphs call with the path, scale and charset of the call
\* before it, which returned a handle, returns the same handle, adds no glyph
\* and issues no handle.
C9_RepeatIsNoOp ==
  [][(n_glyph_calls' /= n_glyph_calls /\ glyph_repeated')
       => /\ glyph_result' = glyph_result
          /\ cache' = cache
          /\ curr_font_handle' = curr_font_handle
          /\ font_handles' = font_handles]_vars

\* a call was repeated after it had cached glyphs
C9_Witness ==
  /\ glyph_repeated
  /\ glyph_result.tag = "Ok"
  /\ \E e \in cache : e.font_id = Unwrap(glyph_result.fh)

\* C10: text with a handle cache_glyphs returned completes for every string.
C10_TextCompletes == panicked /= "text"


----------------------------------------------------------------------------
\* The claims about the vertex channel and the renderer (SpecDraw, SpecChan,
\* SpecLive).

\* The messages of a channel, one after the other
RECURSIVE Flatten(_)
Flatten(packets) == IF packets = <<>> THEN <<>> ELSE Head(packets) \o Flatten(Tail(packets))

KeyOf(v) == <<v.tex_ix, v.tex_type>>

\* The vertices of a list that have the key k, in the order of the list
WithKey(list, k) == SelectSeq(list, LAMBDA v : KeyOf(v) = k)

\* The distinct keys of a list, in the order of their first occurrence
RECURSIVE KeysOf(_)
KeysOf(list) ==
  IF list = <<>> THEN <<>>
  ELSE LET front == KeysOf(SubSeq(list, 1, Len(list) - 1))
           k == KeyOf(list[Len(list)])
       IN IF k \in Range(front) THEN front ELSE Append(front, k)

\* recv_data has just returned
RecvReturns == recv_pc = "loop" /\ recv_pc' = "idle"

\* C11: recv_data leaves one batch for each distinct (tex_ix, tex_type) among
\* the vertices it drained, in the order of first occurrence, and each batch
\* holds exactly the drained vertices of its key, in the order drained; what
\* recv_data stores when it returns is these batches, each followed by its
\* padding.
C11_GroupsByKey ==
  [][/\ recv_pc' = "loop" =>
          LET ks == KeysOf(drained') IN
          /\ Len(recv_list') = Len(ks)
          /\ \A i \in 1..Len(ks) :
               /\ <<recv_list'[i].tex_ix, recv_list'[i].tex_type>> = ks[i]
               /\ recv_list'[i].list = WithKey(drained', ks[i])
     /\ RecvReturns =>
       LET ks == KeysOf(drained) IN
       /\ Len(v_data_list') = Len(ks)
       /\ \A i \in 1..Len(ks) :
            LET own == WithKey(drained, ks[i])
                e == v_data_list'[i]
            IN /\ <<e.tex_ix, e.tex_type>> = ks[i]
               /\ Len(e.list) >= Len(own)
               /\ SubSeq(e.list, 1, Len(own)) = own
               /\ \A k \in (Len(own) + 1)..Len(e.list) : e.list[k] = PadVertex]_vars

\* recv_data has returned two batches, the first of which received vertices
\* before and after the vertices of the second
C11_Witness ==
  /\ recv_pc = "idle"
  /\ Len(v_data_list) = 2
  /\ KeyOf(drained[1]) = KeyOf(drained[Len(drained)])
  /\ \E i \in 1..Len(drained) : KeyOf(drained[i]) /= KeyOf(drained[1])

\* C12: after render has returned, the batch list is empty, so that a second
\* render with no recv_data between draws nothing.
C12_BatchesDiscarded == (rendered /\ panicked = "no") => v_data_list = <<>>

\* C13: after recv_data has returned, every batch holds exactly VBO_SIZE
\* vertices.
C13_BatchesAreVboSize ==
  recv_pc = "idle" => \A i \in 1..Len(v_data_list) : Len(v_data_list[i].list) = VBO_SIZE

\* C14: a recv_data call receives exactly the messages that were in the
\* channel when it started.
C14_DrainsWhatWasThere == [][RecvReturns => drained = Flatten(at_start)]_vars

\* C15: a recv_data call that has started returns.
C15_RecvTerminates == (recv_pc = "loop") ~> (recv_pc = "idle")

\* A line, rect, circle, tex or text call was made
GeometryCall == n_calls' /= n_calls \/ n_text_calls' /= n_text_calls

InOrderOf(list, whole) == list = SelectSeq(whole, LAMBDA v : v \in Range(list))

\* C17: the units of a producer are received in the order it flushed them;
\* a recv_data call receives all the vertices of a unit or none; within a
\* batch the vertices of one producer are in the order it submitted them.
C17_ProducerOrder ==
  [][/\ (recv_pc = "loop" /\ channel /= <<>> /\ channel' = Tail(channel)) =>
          \A p \in Producers :
            LET got == FromProducer(Head(channel), p) IN
            got = SubSeq(submitted[p], n_received[p] + 1, n_received[p] + Len(got))
     /\ RecvReturns =>
          /\ \A u \in units : Range(u) \subseteq Range(drained)
                              \/ Range(u) \cap Range(drained) = {}
          /\ \A i \in 1..Len(v_data_list'), p \in Producers :
               InOrderOf(FromProducer(v_data_list'[i].list, p), submitted[p])]_vars

\* a recv_data call received units of both producers, two of them from the
\* same producer
C17_Witness ==
  /\ recv_pc = "idle"
  /\ \A p \in Producers : FromProducer(drained, p) /= <<>>
  /\ \E u \in units, w \in units :
       /\ u /= w /\ u[1].pos[1] = w[1].pos[1]
       /\ Range(u) \cup Range(w) \subseteq Range(drained)

----------------------------------------------------------------------------
\* The claims about the results of cache_tex (SpecTex).

\* The step is a cache_tex call
CacheTexCall == n_images' /= n_images

\* The size of the rect an image of the call gets, in UV units
NormSize(buf) ==
  <<Norm(buf.w, cache_texture_size[1]), Norm(buf.h, cache_texture_size[2])>>

\* C21: a cache_tex call returns one result for each input, result[i] being
\* the outcome of input[i]: an unreadable file gives IoError, undecodable bytes
\* ImageError, an image larger than the page CacheTooSmall, any other image Ok,
\* NoSpace or DimensionsNotSupported; an image that got Ok is in the cache
\* with its size, and with no page cap and a page size the backend accepts
\* every image within the page size gets Ok whatever the inputs before it got.
C21_OneResultPerInput ==
  [][CacheTexCall =>
       /\ panicked' /= "cache_tex"
       /\ Len(tex_result') = Len(tex_call')
       /\ \A i \in 1..Len(tex_call') :
            LET buf == tex_call'[i]
                r == tex_result'[i]
            IN /\ buf.kind = "IoError" => r.tag = "IoError"
               /\ buf.kind = "ImageError" => r.tag = "ImageError"
               /\ (buf.kind = "image" /\ ~InBounds(buf, cache_texture_size))
                    => r.tag = "CacheTooSmall"
               /\ InBounds(buf, cache_texture_size)
                    => r.tag \in {"Ok", "NoSpace", "DimensionsNotSupported"}
               /\ (InBounds(buf, cache_texture_size) /\ max_cache_textures = 0
                     /\ BackendAccepts(cache_texture_size)) => r.tag = "Ok"
               /\ r.tag = "Ok" =>
                    LET found == rect_for(bin_pack_trees', Unwrap(r.handle)) IN
                    /\ IsSome(found)
                    /\ <<Unwrap(found)[2][3], Unwrap(found)[2][4]>> = NormSize(buf)]_vars

\* C22: an image wider or higher than the page size gets CacheTooSmall and
\* consumes no handle; a call whose images are all too large returns without
\* a panic and leaves the handle counter, the pages and the trees as they
\* were, also while lookup views are alive.
C22_TooBigIsRejectedFirst ==
  [][CacheTexCall =>
       LET big == {i \in 1..Len(tex_call') :
                     tex_call'[i].kind = "image"
                     /\ ~InBounds(tex_call'[i], cache_texture_size)}
           within == {i \in 1..Len(tex_call') : InBounds(tex_call'[i], cache_texture_size)}
       IN /\ panicked' = "no" => \A i \in big : tex_result'[i].tag = "CacheTooSmall"
          /\ next_tex_handle' - next_tex_handle <= Cardinality(within)
          /\ big = 1..Len(tex_call') =>
               /\ panicked' = "no"
               /\ next_tex_handle' = next_tex_handle
               /\ cache_textures' = cache_textures
               /\ bin_pack_trees' = bin_pack_trees]_vars

\* a call returned CacheTooSmall for an image higher than the page and then
\* Ok, with the handle the counter had before the call, for the image after it
C22_Witness ==
  /\ panicked = "no"
  /\ Len(tex_call) = 2
  /\ tex_call[1].kind = "image" /\ tex_call[1].h > cache_texture_size[2]
  /\ tex_call[1].w <= cache_texture_size[1]
  /\ tex_result[1].tag = "CacheTooSmall"
  /\ tex_result[2] = Ok(next_tex_handle - 1)
  /\ Len(issued) = next_tex_handle

----------------------------------------------------------------------------
\* The claims about readers of the texture cache (SpecStep).

\* The statements of cache_tex_internal, taken one by one, leave the cache
\* as the call taken at once does.
StepsAgreeWithCall ==
  [][(tex_pc = "next" /\ tex_pc' = "idle") =>
       LET s == cache_tex_internal(tex_job.start[1], tex_call, max_cache_textures,
                                   cache_texture_size, tex_lookups)
       IN /\ ~s.panicked
          /\ next_tex_handle' = s.next_tex_handle
          /\ cache_textures' = s.cache_textures
          /\ bin_pack_trees' = s.bin_pack_trees
          /\ issued' = s.issued
          /\ tex_result' = s.result]_vars

\* C23: a rect_for, through a controller's lookup view or through the cache,
\* sees the cache whole: whenever a lookup has run it saw, and whenever one
\* can run it would see, no tree without its page texture, no page without
\* its first image, and no occupied node without its rect and children.
C23_LookupsSeeWholeCache ==
  /\ lookup_seen.whole
  /\ (tex_lookups > 0 \/ tex_pc = "idle") => Whole

\* with a lookup view alive, a rect_for found its handle in a cache of two
\* pages, both created by cache_tex calls that returned
C23_Witness ==
  /\ tex_lookups > 0
  /\ tex_pc = "idle"
  /\ IsSome(lookup_seen.found)
  /\ Len(bin_pack_trees) = 2
  /\ Len(issued) >= 2

\* a cache_tex call is between the writes of a new page
WriterMidCreation == tex_pc = "push_tree" /\ ~Whole

----------------------------------------------------------------------------
\* The claims about textured quads (SpecQuad).

\* C24: tex with a handle that has no rect in the texture cache returns
\* Err(RenderTextureError) and leaves the buffer of its controller as it was;
\* with a cached handle it returns Ok and appends six vertices, each tagged
\* Texture and the index of the page that holds the handle.
C24_TexAppendsSixOrNothing ==
  [][\A tex \in QuadArgs :
       ControllerTex(tex) =>
         LET found == rect_for(bin_pack_trees, tex)
             res == tex_vertices(bin_pack_trees, NextPos(1), tex)
         IN IF found = None
            THEN res.tag = "RenderTextureError" /\ buffer' = buffer
            ELSE /\ res.tag = "Ok"
                 /\ Len(buffer'[1]) = Len(buffer[1]) + 6
                 /\ SubSeq(buffer'[1], 1, Len(buffer[1])) = buffer[1]
                 /\ \A k \in (Len(buffer[1]) + 1)..Len(buffer'[1]) :
                      /\ buffer'[1][k].tex_type = "Texture"
                      /\ buffer'[1][k].tex_ix = Unwrap(found)[1]]_vars

\* the first tex call of the controller appended nothing and its second
\* call appended six vertices of page 1: a call with a handle that is not
\* cached, then one with a handle cached on the second page
C24_Witness ==
  /\ n_calls[1] = 2
  /\ Len(buffer[1]) = 6
  /\ \A k \in 1..6 : buffer[1][k].pos = <<1, 1>> /\ buffer[1][k].tex_ix = 1

----------------------------------------------------------------------------
\* The claims about pack_rect on a free leaf (SpecPack, SpecTex).

\* The trees pack_rect is called on: those of the cache, and the tree of a
\* page that was just created.
PackTrees == Range(bin_pack_trees) \cup {<<NewNode(<<0, 0, UNIT, UNIT>>)>>}

\* The widths and heights cache_tex_internal hands to pack_rect
PackSizes ==
  UNION {{Norm(w, side) : w \in {v \in ImageSides : v <= side}} : side \in PageSides}

C26_RightChildHasRectHeight ==
  \A p \in 1..Len(bin_pack_trees) :
    LET t == bin_pack_trees[p] IN
    /\ \A i \in Occupied(t) :
         is_leaf(t[t[i].r_child]) => t[t[i].r_child].space[4] = t[i].space[4]
    /\ is_leaf(t[t[1].l_child]) =>
         /\ t[t[1].l_child].space[3] = UNIT
         /\ t[t[1].l_child].space[4] = UNIT - t[1].space[4]

----------------------------------------------------------------------------
\* The claims about pages, the page cap and failed requests (SpecTex).

\* The pages whose tree accepts the one image of the call, before the call.
Accepting ==
  LET w == Norm(tex_call'[1].w, cache_texture_size[1])
      h == Norm(tex_call'[1].h, cache_texture_size[2])
  IN {p \in 1..Len(bin_pack_trees) :
        pack_rect(bin_pack_trees[p], 1, w, h, next_tex_handle).ok}

\* A cache_tex call of one request
OneRequest == CacheTexCall /\ Len(tex_call') = 1

\* C27: an image that cache_tex places goes to the lowest-indexed page whose
\* tree accepts it, and no page is created then; a page is created only when
\* every page refuses the image, which is then at the origin of the new page.
C27_FirstFitPage ==
  [][OneRequest =>
       /\ Len(cache_textures') > Len(cache_textures) => Accepting = {}
       /\ Len(issued') > Len(issued) =>
            LET placed == issued'[Len(issued')]
                w == Norm(tex_call'[1].w, cache_texture_size[1])
                h == Norm(tex_call'[1].h, cache_texture_size[2])
            IN IF Accepting /= {}
               THEN /\ placed.ix + 1 \in Accepting
                    /\ \A p \in Accepting : placed.ix + 1 <= p
                    /\ cache_textures' = cache_textures
               ELSE /\ placed.ix = Len(cache_textures)
                    /\ Len(cache_textures') = Len(cache_textures) + 1
                    /\ placed.rect = <<0, 0, w, h>>]_vars

\* the third image went to page 0 although page 1 has room for it as well
C27_Witness ==
  /\ Len(issued) = 3 /\ Len(bin_pack_trees) = 2 /\ Len(tex_call) = 1
  /\ issued[2].ix = 1
  /\ issued[3].ix = 0
  /\ pack_rect(bin_pack_trees[2], 1, issued[3].rect[3], issued[3].rect[4], 0).ok

\* C28: there are as many packing trees as page textures; a cache_tex call
\* made under a cap n > 0 with at most n pages leaves at most n pages, so
\* that under a cap set before the first call the pages never exceed it; and
\* under the cap 0 no request is refused with NoSpace.
C28_CapBoundsPages ==
  [][/\ Len(bin_pack_trees) = Len(cache_textures)
     /\ Len(bin_pack_trees') = Len(cache_textures')
     /\ (CacheTexCall /\ max_cache_textures > 0
           /\ Len(cache_textures) <= max_cache_textures)
          => Len(cache_textures') <= max_cache_textures
     /\ (CacheTexCall /\ max_cache_textures = 0)
          => \A i \in 1..Len(tex_result') : tex_result'[i].tag /= "NoSpace"]_vars

\* under the cap 1, with the one page created under it, a request was refused
\* with NoSpace
C28_Witness ==
  /\ max_cache_textures = 1
  /\ Len(cache_textures) = 1
  /\ Len(issued) >= 1
  /\ \E i \in 1..Len(tex_result) : tex_result[i].tag = "NoSpace"

\* C29: a request that fails with NoSpace or DimensionsNotSupported leaves
\* the handle counter, the pages and the trees as they were.
C29_FailedRequestChangesNothing ==
  [][(OneRequest /\ Len(tex_result') = 1
        /\ tex_result'[1].tag \in {"NoSpace", "DimensionsNotSupported"})
       => /\ next_tex_handle' = next_tex_handle
          /\ cache_textures' = cache_textures
          /\ bin_pack_trees' = bin_pack_trees]_vars

----------------------------------------------------------------------------
\* The claim about the list of GlyphNotSupported (SpecFont).

\* C30: the list of a GlyphNotSupported error holds every codepoint of the
\* charset that the font does not map, each once, and no codepoint that the
\* font maps.
C30_ListIsTheUnmapped ==
  glyph_result.tag = "GlyphNotSupported"
    => /\ Range(glyph_result.chars)
            = Range(glyph_call.charset) \ Mapped(glyph_call.path)
       /\ \A i \in 1..Len(glyph_result.chars), j \in 1..Len(glyph_result.chars) :
            i /= j => glyph_result.chars[i] /= glyph_result.chars[j]

----------------------------------------------------------------------------
\* The claims about font handles (SpecFont).

\* A cache_glyphs call that returned a handle
GlyphCallOk == n_glyph_calls' /= n_glyph_calls /\ glyph_result'.tag = "Ok"

\* trunc(scale * 100) of a call
IntScale(call) == (call.scale * 100) \div 1000

\* What C31 says of handles: the call returns the handle of the call before
\* it exactly when both name the same path and integer-scaled size; the
\* registry pairs handles and (path, size) keys one to one; a key seen for
\* the first time gets a handle above every handle given out before.
HandlePerKey ==
  LET fh == Unwrap(glyph_result'.fh) IN
  /\ glyph_result.tag = "Ok" =>
       (fh = Unwrap(glyph_result.fh)
          <=> (glyph_call'.path = glyph_call.path
               /\ IntScale(glyph_call') = IntScale(glyph_call)))
  /\ \E e \in font_handles' :
       /\ e.fh = fh
       /\ e.spec.path = glyph_call'.path
       /\ e.spec.x_scale = IntScale(glyph_call')
       /\ e.spec.y_scale = IntScale(glyph_call')
  /\ \A e1 \in font_handles', e2 \in font_handles' : e1.fh = e2.fh <=> e1.spec = e2.spec
  /\ (\A e \in font_handles : e.fh /= fh) => \A e \in font_handles : e.fh < fh

\* C31 as stated: besides the above, the scale recorded for the handle's
\* font is the scale of the call that returned the handle.
C31_HandlePerFontSpec ==
  [][GlyphCallOk =>
       /\ HandlePerKey
       /\ \E f \in fonts' : /\ f.fh = Unwrap(glyph_result'.fh)
                            /\ f.scale = glyph_call'.scale]_vars

\* C31, amended: the scale recorded for the handle's font is the scale of
\* the first call that returned the handle; a later call with the same
\* integer-scaled size leaves the font table as it is.
C31_ScaleOfFirstCall ==
  [][GlyphCallOk =>
       LET fh == Unwrap(glyph_result'.fh) IN
       /\ HandlePerKey
       /\ IF \E f \in fonts : f.fh = fh
          THEN fonts' = fonts
          ELSE \E f \in fonts' : /\ f.fh = fh
                                 /\ f.path = glyph_call'.path
                                 /\ f.scale = glyph_call'.scale
       /\ \A f \in fonts' : f.fh = fh =>
            (f.scale * 100) \div 1000 = IntScale(glyph_call')]_vars

\* a handle was returned a second time, to a call with another scale of the
\* same integer-scaled size
C31_Witness ==
  /\ n_glyph_calls = 2
  /\ glyph_result.tag = "Ok"
  /\ \E f \in fonts : /\ f.fh = Unwrap(glyph_result.fh)
                      /\ f.scale /= glyph_call.scale
                      /\ (f.scale * 100) \div 1000 = IntScale(glyph_call)

----------------------------------------------------------------------------
\* The claims about solid shapes (SpecSolid) and the textures of the batches
\* (SpecApp).

\* A call of line, rect or circle on the controller
SolidCall == ControllerLine \/ ControllerRect \/ ControllerCircle

\* The vertices a geometry call appended to the buffer of controller 1
Appended == SubSeq(buffer'[1], Len(buffer[1]) + 1, Len(buffer'[1]))

\* C32: every vertex line, rect or circle appends has tex_type Texture, the
\* page index of the white texture and tex_coords within the white
\* texture's rect; none of them fails.
C32_SolidIsWhite ==
  [][SolidCall =>
       LET white == Unwrap(lookup_tex(bin_pack_trees, White))
           rect == white[2]
       IN /\ panicked' = "no"
          /\ Len(Appended) >= 3
          /\ \A k \in 1..Len(Appended) :
               LET v == Appended[k] IN
               /\ v.tex_type = "Texture"
               /\ v.tex_ix = white[1]
               /\ rect[1] <= v.uv[1] /\ v.uv[1] <= rect[3]
               /\ rect[2] <= v.uv[2] /\ v.uv[2] <= rect[4]]_vars

\* a line and a rect were drawn by a program that has other pages than the
\* white texture's
C32_Witness ==
  /\ Len(cache_textures) >= 2
  /\ \E k \in 1..Len(buffer[1]) : buffer[1][k].uv = <<0, 0>>
  /\ \E k \in 1..Len(buffer[1]) : buffer[1][k].uv = <<1, 1>>

\* C37: the key of every vertex a geometry call buffered, and of every batch
\* recv_data built or stored, has a texture: a Font key the glyph atlas, a
\* Texture key a page of the cache.  render finds no batch without one.
C37_KeysHaveTextures ==
  /\ \A k \in 1..Len(buffer[1]) : has_tex(buffer[1][k])
  /\ \A m \in 1..Len(channel) : \A k \in 1..Len(channel[m]) : has_tex(channel[m][k])
  /\ \A ii \in 1..Len(recv_list) : has_tex(recv_list[ii])
  /\ \A ii \in 1..Len(v_data_list) : has_tex(v_data_list[ii])

\* render drew a batch of the glyph atlas and a batch of a page cached after
\* the white texture
C37_Witness ==
  /\ rendered /\ panicked = "no"
  /\ \E d \in 1..Len(draws) : draws[d].tex_type = "Font"
  /\ \E d \in 1..Len(draws) : draws[d].tex_type = "Texture" /\ draws[d].tex_ix >= 1

----------------------------------------------------------------------------
\* The claims about the batches recv_data stores (SpecRecv).

\* The vertices of a list that recv_data received, without its padding
Received(list) == SelectSeq(list, LAMBDA v : v /= PadVertex)

\* Vertex v carries the key of batch e
HasKeyOf(e, v) == v.tex_ix = e.tex_ix /\ v.tex_type = e.tex_type

\* recv_data is between two calls
RecvIdle == recv_pc = "idle"

\* C33 as stated: after recv_data, every vertex of a batch has the tex_ix
\* and the tex_type of the batch.
C33_BatchVerticesHaveBatchKey ==
  RecvIdle =>
    \A ii \in 1..Len(v_data_list) :
      \A k \in 1..Len(v_data_list[ii].list) :
        HasKeyOf(v_data_list[ii], v_data_list[ii].list[k])

\* C33, amended: every received vertex of a batch has the tex_ix and the
\* tex_type of the batch, in the list being built and in the stored list; no
\* two batches have the same key; what follows the received vertices of a
\* stored batch is padding, tagged (0, Texture) whatever the key of the batch.
C33_ReceivedVerticesHaveBatchKey ==
  /\ \A list \in {recv_list, v_data_list} :
       /\ \A ii \in 1..Len(list) :
            \A k \in 1..Len(list[ii].list) :
              list[ii].list[k] /= PadVertex => HasKeyOf(list[ii], list[ii].list[k])
       /\ \A ii \in 1..Len(list), jj \in 1..Len(list) :
            ii /= jj => ~(list[ii].tex_ix = list[jj].tex_ix
                          /\ list[ii].tex_type = list[jj].tex_type)
  /\ \A ii \in 1..Len(recv_list) : Received(recv_list[ii].list) = recv_list[ii].list
  /\ \A ii \in 1..Len(v_data_list) :
       LET l == v_data_list[ii].list
           n == Len(Received(l))
       IN /\ n >= 1
          /\ SubSeq(l, 1, n) = Received(l)
          /\ PadVertex.tex_ix = 0 /\ PadVertex.tex_type = "Texture"

\* recv_data stored a padded batch of the glyph atlas and a padded batch of
\* page 1
C33_Witness ==
  /\ RecvIdle
  /\ \E ii \in 1..Len(v_data_list) :
       /\ v_data_list[ii].tex_type = "Font"
       /\ Received(v_data_list[ii].list) /= v_data_list[ii].list
  /\ \E ii \in 1..Len(v_data_list) :
       /\ v_data_list[ii].tex_type = "Texture" /\ v_data_list[ii].tex_ix = 1
       /\ Received(v_data_list[ii].list) /= v_data_list[ii].list

\* The received vertices of all batches of a batch list, batch after batch
RECURSIVE AllReceived(_)
AllReceived(list) ==
  IF list = <<>> THEN <<>>
  ELSE Received(Head(list).list) \o AllReceived(Tail(list))

\* C35: when recv_data returns, the batch list of the renderer holds the
\* vertices this call drained, each once, and nothing else but padding:
\* nothing of the list stored before it; after a call that drained nothing
\* the batch list is empty.
C35_BatchesAreOfThisCall ==
  [][(recv_pc = "loop" /\ recv_pc' = "idle") =>
       /\ Range(AllReceived(v_data_list')) = Range(drained)
       /\ Len(AllReceived(v_data_list')) = Len(drained)
       /\ drained = <<>> => v_data_list' = <<>>
       /\ \A ii \in 1..Len(v_data_list) :
            \A v \in Range(Received(v_data_list[ii].list)) :
              v \notin Range(drained) => v \notin Range(AllReceived(v_data_list'))]_vars

\* a recv_data call that found the channel empty has replaced the batches of
\* the call before it, which no render had drawn
C35_Witness ==
  /\ RecvIdle
  /\ v_data_list = <<>>
  /\ n_received[1] > 0
  /\ ~rendered /\ draws = <<>>

----------------------------------------------------------------------------
\* The claim about the strict overflow policy (SpecStrict).

\* recv_data sees the channel empty: its last turn
RecvLastTurn == recv_pc = "loop" /\ channel = <<>> /\ panicked = "no" /\ UNCHANGED channel

----------------------------------------------------------------------------
\* The claim about clones of a controller (SpecClone).

\* C36: a vertex appended by a geometry call is sent at most once: of the
\* vertices a producer's calls made, no more are received or waiting in the
\* channel than the calls appended.
C36_SentAtMostOnce ==
  \A p \in Producers :
    n_received[p] + Len(FromProducer(Flatten(channel), p)) <= Len(submitted[p])


----------------------------------------------------------------------------
\* The claim about the pixels an image is written to (SpecPack).

\* C39: the region an image is written to is its rect scaled by the size its
\* page was created with, and has the width and the height of the image.
C39_WrittenWhereTheRectIs ==
  [][(OneRequest /\ Len(issued') > Len(issued)) =>
       LET placed == issued'[Len(issued')]
           page == cache_textures'[placed.ix + 1]
           written == write_rect(cache_texture_size, placed.rect)
       IN /\ written[1] = (page[1] * placed.rect[1]) \div UNIT
          /\ written[2] = (page[2] * placed.rect[2]) \div UNIT
          /\ written[3] = tex_call'[1].w
          /\ written[4] = tex_call'[1].h]_vars


----------------------------------------------------------------------------
\* The claim about the mutexes (SpecLock).

\* C38: render and the threads that call cache_glyphs, cache_tex and
\* get_renderer_controller do not deadlock: every call that was started gets
\* the mutexes it asks for and returns.
C38_EveryCallReturns ==
  \A t \in Threads : (thread_pc[t] /= Idle) ~> (thread_pc[t] = Idle)

====
